---- MODULE Spec2Model ----
(***************************************************************************)
(* Model of the Trion runtime core (src/trion_runtime.c): the bounded     *)
(* MPMC Channel, the Quarantine allocator, the Capsule with its worker    *)
(* thread, the event-callback registry and the syscall registry, with    *)
(* the threads that call them, and the base-12 conversions of big        *)
(* numbers.  Every critical section (mutex lock .. unlock or .. cond     *)
(* wait) is one atomic action; a condition-variable wait is a thread     *)
(* state; a conversion is an operator computed as the code computes it.  *)
(***************************************************************************)
EXTENDS Integers, Sequences, FiniteSets, TLC

(* ------------------------------ bounds -------------------------------- *)
NThreads == 2          \* threads calling into the runtime
MaxCap == 2            \* largest capacity given to channel_create
MaxOps == 4            \* channel calls made in one run
NQThreads == 1         \* of them, threads calling into the quarantine
MaxPtr == 3            \* addresses malloc can hand out
MaxQCap == 1           \* largest initial_capacity given to quarantine_create
NCapThreads == 1       \* threads calling start / join / destroy / send on the capsule
MaxWorkers == 2        \* worker threads tr_capsule_start can create in one run
MaxCbs == 2            \* tr_register_event_callback calls made in one run
MaxMsgs == 1           \* messages sent to the capsule's inbox in one run
NSysThreads == 2       \* threads calling into the syscall registry
MaxSysOps == 3         \* syscall registry calls made in one run
MaxTokLen == 1         \* longest auth token
NLookThreads == 1      \* threads calling into an already filled syscall registry
MaxLookOps == 1        \* calls they make in one run
MaxEntries == 3        \* entries the registry holds when they start
NB12Threads == 1       \* threads calling the base-12 conversions
MaxBytes == 2          \* longest byte vector given to bytes_to_base12_scaled
MaxScale == 3          \* largest scale given to it
MaxTextLen == 5        \* longest text given to base12_to_bytes_with_scale
WordBits == 8          \* width of the word tr_from_base12_u64 computes in
MaxSepLen == 3         \* longest text with separators given to the decoders
MaxDigits == 3         \* longest digit string given to tr_from_base12_u64

Threads == 1..NThreads
QThreads == 1..NQThreads
CapThreads == 1..NCapThreads
Workers == 1..MaxWorkers
SysThreads == 1..NSysThreads
LookThreads == 1..NLookThreads
B12Threads == 1..NB12Threads
AllThreads == 1..(NThreads + MaxWorkers)   \* the callers, then the workers
NoThread == 0
NULL == 0
Ptrs == 1..MaxPtr
Garbage == -1          \* content of a slot realloc added and nobody wrote yet
Timeouts == {0, 1}     \* timeout_ms: 0 waits for ever, otherwise a timed wait
SysFlags == {0, 1}     \* flags of a syscall entry: bit 0 is the audit bit

VARIABLES
  chan,        \* the Channel struct: buffer, capacity, head, tail, count, closed
  pc,          \* per thread: idle, or where inside channel_send / channel_recv
  arg,         \* per thread: the arguments of the call it is blocked in
  lastError,   \* per thread: g_last_error_msg (thread local)
  ev,          \* the step just taken: operation, argument, return value, *out
  sentLog,     \* items of the sends that returned 0, in lock order
  recvLog,     \* items of the recvs that returned 1, in lock order
  nOps,        \* channel calls made so far
  atClose,     \* per thread: the wait channel_close found it in, if any
  q,           \* the Quarantine struct: items, count, capacity, sealed
  qAlive,      \* FALSE once quarantine_destroy has run
  heap,        \* addresses malloc returned and free has not released
  given,       \* addresses quarantine_alloc ever returned to a caller
  owed,        \* allocations quarantine_alloc returned, minus the free() calls
               \* quarantine_free and quarantine_destroy made
  badFree,     \* TRUE once free() was called on an address not in the heap
  lockLog,     \* the mutex operations of the last quarantine call, in order
  cap,         \* the Capsule struct: running, thread; freed once free(c) has run
  wk,          \* per worker thread: where it is in capsule_thread_start, and
               \* the locals of the callback_registry_emit it is in
  loc,         \* per calling thread: the locals of the capsule or registry
               \* call it is inside (thread handle, registry pointer, callback)
  g_callback_registry,   \* NULL, or the registry the global points to
  cbRegs,      \* the CallbackRegistry structs created so far
  nextCb,      \* callbacks passed to tr_register_event_callback so far
  joined,      \* worker threads pthread_join has returned for
  crashed,     \* TRUE once the process has died on an invalid access
  hist,        \* history: the registrations that returned 0, the transitions
               \* of running, and per worker the observers registered when
               \* it was started, the events delivered and the statements done
  g_syscall_registry,    \* NULL, or the registry the global points to
  sysRegs,     \* the SyscallRegistry structs created so far
  sloc,        \* per calling thread: the locals of the registry call it is
               \* inside (name, caller's token, handler, flags, entry's token)
  auditLog,    \* the records tr_audit_log has written
  nSysOps,     \* registry calls made so far
  nextH,       \* handlers passed to tr_register_syscall_ex so far
  b12          \* the base-12 conversion under way: the arguments given, the
               \* text and return code of the encoder, the bytes, scale,
               \* word and return code of the decoders

vars == <<chan, pc, arg, lastError, ev, sentLog, recvLog, nOps, atClose,
          q, qAlive, heap, given, owed, badFree, lockLog,
          cap, wk, loc, g_callback_registry, cbRegs, nextCb, joined, crashed,
          hist,
          g_syscall_registry, sysRegs, sloc, auditLog, nSysOps, nextH, b12>>

chanVars == <<chan, pc, arg, sentLog, recvLog, nOps, atClose>>
quarVars == <<q, qAlive, heap, given, owed, badFree, lockLog>>
capVars == <<cap, wk, loc, g_callback_registry, cbRegs, nextCb, joined, crashed,
             hist>>
sysVars == <<g_syscall_registry, sysRegs, sloc, auditLog, nSysOps, nextH>>
b12Vars == <<b12>>
extVars == <<capVars, sysVars, b12Vars>>

NoArg == [item |-> NULL, blocking |-> FALSE, tmo |-> 0]
NoErr == ""

(* op: the call that took the step ("send_blocks" / "recv_blocks" when the call
   went to wait instead of returning); in: its item, pointer or size argument;
   ret: its return value; out: what it stored through its out parameter (for
   quarantine_destroy: the number of free() calls it made on tracked slots) *)
Event(op, in, ret, out) == [op |-> op, in |-> in, ret |-> ret, out |-> out]

(* tr_set_last_error_fmt: replaces the calling thread's message *)
tr_set_last_error_fmt(le, t, msg) == [le EXCEPT ![t] = msg]

(* tr_mutex_lock(m); inner; tr_mutex_unlock(m): the mutex operations of a
   critical section on m inside which those of inner are made *)
Locked(m, inner) ==
  <<[op |-> "lock", m |-> m]>> \o inner \o <<[op |-> "unlock", m |-> m]>>

(* the mutex operations of tr_set_last_error_fmt: g_error_lock is taken
   around the replacement of the message *)
SetErrorLocks == Locked("g_error_lock", <<>>)

(* the mutexes held just before the i-th operation of log *)
HeldBefore(log, i) ==
  {m \in {log[j].m : j \in 1..(i - 1)} :
     \E j \in 1..(i - 1) :
       /\ log[j] = [op |-> "lock", m |-> m]
       /\ \A k \in (j + 1)..(i - 1) : log[k] # [op |-> "unlock", m |-> m]}

(* ------------------------------ Channel ------------------------------- *)

(* channel_create: capacity >= 1, zeroed buffer, head = tail = count = 0 *)
channel_create(capacity) ==
  [buffer |-> [i \in 0..(capacity - 1) |-> NULL],
   capacity |-> capacity, head |-> 0, tail |-> 0, count |-> 0,
   closed |-> FALSE]

(* the loop guard off by one: the sender goes on when the buffer is full *)
send_full_late(c) == c.count = c.capacity + 1

(* while (c->count == c->capacity) *)
send_full(c) == c.count = c.capacity

(* the closed flag is looked at before the count: items left are not drained *)
recv_empty_or_closed(c) == c.count = 0 \/ c.closed

(* while (c->count == 0) *)
recv_empty(c) == c.count = 0

(* if (c->closed) in channel_send, on entry, before the loop *)
send_sees_closed(c) == c.closed

(* the re-check of the closed flag after the wait is left out *)
send_closed_not_rechecked(c) == FALSE

(* if (c->closed) in channel_send, inside the loop, after the wait returned *)
send_sees_closed_after_wait(c) == c.closed

(* if (c->closed) in channel_recv, inside the empty loop *)
recv_sees_closed(c) == c.closed

(* c->buffer[c->tail] = item; c->tail = (c->tail + 1) % c->capacity; c->count++ *)
send_insert(c, item) ==
  [c EXCEPT !.buffer[c.tail] = item,
            !.tail = (c.tail + 1) % c.capacity,
            !.count = c.count + 1]

(* the newest item is read instead of the oldest *)
recv_item_newest(c) == c.buffer[(c.tail + c.capacity - 1) % c.capacity]

(* *out = c->buffer[c->head] *)
recv_item(c) == c.buffer[c.head]

(* the count is not decremented *)
recv_remove_keeps_count(c) ==
  [c EXCEPT !.buffer[c.head] = NULL,
            !.head = (c.head + 1) % c.capacity]

(* the slot the item was read from is not cleared *)
recv_remove_keeps_slot(c) ==
  [c EXCEPT !.head = (c.head + 1) % c.capacity,
            !.count = c.count - 1]

(* c->buffer[c->head] = NULL; c->head = (c->head + 1) % c->capacity; c->count-- *)
recv_remove(c) ==
  [c EXCEPT !.buffer[c.head] = NULL,
            !.head = (c.head + 1) % c.capacity,
            !.count = c.count - 1]

(* c->closed = 1 *)
close_set(c) == [c EXCEPT !.closed = TRUE]

Waiting(p, st) == {t \in Threads : p[t] = st}

(* the signal wakes nobody *)
notify_nobody(p, st) == {NoThread}

(* tr_cond_notify_one: one of the threads waiting on the condition, if any *)
notify_one(p, st) == IF Waiting(p, st) = {} THEN {NoThread} ELSE Waiting(p, st)

(* the thread picked by notify_one leaves the wait *)
Wake(p, w, woken) == IF w = NoThread THEN p ELSE [p EXCEPT ![w] = woken]

(* only not_empty is broadcast: the senders waiting on not_full sleep on *)
notify_all_not_empty_only(p) ==
  [t \in Threads |-> IF p[t] = "recv_wait" THEN "recv_woken" ELSE p[t]]

(* tr_cond_notify_all on not_empty and on not_full *)
notify_all(p) ==
  [t \in Threads |->
     IF p[t] = "send_wait" THEN "send_woken"
     ELSE IF p[t] = "recv_wait" THEN "recv_woken"
     ELSE p[t]]

(* the part of channel_send run with the lock held: the closed check (before
   the loop on entry, after the wait on resume), then the full loop, then the
   insert *)
SendLocked(t, item, blocking, tmo, isClosed, closedMsg) ==
  IF isClosed
  THEN /\ pc' = [pc EXCEPT ![t] = "idle"]
       /\ arg' = [arg EXCEPT ![t] = NoArg]
       /\ lastError' = tr_set_last_error_fmt(lastError, t, closedMsg)
       /\ ev' = Event("send", item, -1, NULL)
       /\ UNCHANGED <<chan, sentLog>>
  ELSE IF send_full(chan)
  THEN IF ~blocking
       THEN /\ pc' = [pc EXCEPT ![t] = "idle"]
            /\ arg' = [arg EXCEPT ![t] = NoArg]
            /\ lastError' =
                 tr_set_last_error_fmt(lastError, t, "channel_send: would block")
            /\ ev' = Event("send", item, -2, NULL)
            /\ UNCHANGED <<chan, sentLog>>
       ELSE /\ pc' = [pc EXCEPT ![t] = "send_wait"]
            /\ arg' = [arg EXCEPT ![t] =
                         [item |-> item, blocking |-> blocking, tmo |-> tmo]]
            /\ ev' = Event("send_blocks", item, 0, NULL)
            /\ UNCHANGED <<chan, sentLog, lastError>>
  ELSE \E w \in notify_one(pc, "recv_wait") :
         /\ chan' = send_insert(chan, item)
         /\ pc' = Wake([pc EXCEPT ![t] = "idle"], w, "recv_woken")
         /\ arg' = [arg EXCEPT ![t] = NoArg]
         /\ sentLog' = Append(sentLog, item)
         /\ ev' = Event("send", item, 0, NULL)
         /\ UNCHANGED lastError

(* channel_send, from the call to its first wait or its return *)
channel_send(t, item, blocking, tmo) ==
  /\ pc[t] = "idle"
  /\ nOps < MaxOps
  /\ nOps' = nOps + 1
  /\ SendLocked(t, item, blocking, tmo, send_sees_closed(chan),
                "channel_send: closed")
  /\ UNCHANGED <<recvLog, atClose>>
  /\ UNCHANGED <<quarVars, extVars>>

(* channel_send, after tr_cond_wait / tr_cond_timedwait returned 0 *)
channel_send_resume(t) ==
  /\ pc[t] = "send_woken"
  /\ SendLocked(t, arg[t].item, TRUE, arg[t].tmo,
                send_sees_closed_after_wait(chan),
                "channel_send: closed during wait")
  /\ UNCHANGED <<recvLog, nOps, atClose>>
  /\ UNCHANGED <<quarVars, extVars>>

(* the item is stored before the wait and left in the slot when the wait
   runs out *)
channel_send_timeout_stores(t) ==
  /\ pc[t] = "send_expired"
  /\ chan' = [chan EXCEPT !.buffer[chan.tail] = arg[t].item]
  /\ pc' = [pc EXCEPT ![t] = "idle"]
  /\ arg' = [arg EXCEPT ![t] = NoArg]
  /\ lastError' = tr_set_last_error_fmt(lastError, t, "channel_send: timeout")
  /\ ev' = Event("send", arg[t].item, -3, NULL)
  /\ UNCHANGED <<sentLog, recvLog, nOps, atClose>>
  /\ UNCHANGED <<quarVars, extVars>>

(* channel_send, after tr_cond_timedwait returned non-zero *)
channel_send_timeout(t) ==
  /\ pc[t] = "send_expired"
  /\ pc' = [pc EXCEPT ![t] = "idle"]
  /\ arg' = [arg EXCEPT ![t] = NoArg]
  /\ lastError' = tr_set_last_error_fmt(lastError, t, "channel_send: timeout")
  /\ ev' = Event("send", arg[t].item, -3, NULL)
  /\ UNCHANGED <<chan, sentLog, recvLog, nOps, atClose>>
  /\ UNCHANGED <<quarVars, extVars>>

(* the part of channel_recv run with the lock held: the empty loop (closed,
   non-blocking, wait), then the removal *)
RecvLocked(t, blocking, tmo) ==
  IF recv_empty(chan)
  THEN IF recv_sees_closed(chan)
       THEN /\ pc' = [pc EXCEPT ![t] = "idle"]
            /\ arg' = [arg EXCEPT ![t] = NoArg]
            /\ ev' = Event("recv", NULL, 0, NULL)
            /\ UNCHANGED <<chan, recvLog, lastError>>
       ELSE IF ~blocking
       THEN /\ pc' = [pc EXCEPT ![t] = "idle"]
            /\ arg' = [arg EXCEPT ![t] = NoArg]
            /\ lastError' =
                 tr_set_last_error_fmt(lastError, t, "channel_recv: would block")
            /\ ev' = Event("recv", NULL, -2, NULL)
            /\ UNCHANGED <<chan, recvLog>>
       ELSE /\ pc' = [pc EXCEPT ![t] = "recv_wait"]
            /\ arg' = [arg EXCEPT ![t] =
                         [item |-> NULL, blocking |-> blocking, tmo |-> tmo]]
            /\ ev' = Event("recv_blocks", NULL, 0, NULL)
            /\ UNCHANGED <<chan, recvLog, lastError>>
  ELSE \E w \in notify_one(pc, "send_wait") :
         /\ chan' = recv_remove(chan)
         /\ pc' = Wake([pc EXCEPT ![t] = "idle"], w, "send_woken")
         /\ arg' = [arg EXCEPT ![t] = NoArg]
         /\ recvLog' = Append(recvLog, recv_item(chan))
         /\ ev' = Event("recv", NULL, 1, recv_item(chan))
         /\ UNCHANGED lastError

(* channel_recv, from the call to its first wait or its return *)
channel_recv(t, blocking, tmo) ==
  /\ pc[t] = "idle"
  /\ nOps < MaxOps
  /\ nOps' = nOps + 1
  /\ RecvLocked(t, blocking, tmo)
  /\ UNCHANGED <<sentLog, atClose>>
  /\ UNCHANGED <<quarVars, extVars>>

(* channel_recv, after tr_cond_wait / tr_cond_timedwait returned 0 *)
channel_recv_resume(t) ==
  /\ pc[t] = "recv_woken"
  /\ RecvLocked(t, TRUE, arg[t].tmo)
  /\ UNCHANGED <<sentLog, nOps, atClose>>
  /\ UNCHANGED <<quarVars, extVars>>

(* channel_recv, after tr_cond_timedwait returned non-zero *)
channel_recv_timeout(t) ==
  /\ pc[t] = "recv_expired"
  /\ pc' = [pc EXCEPT ![t] = "idle"]
  /\ arg' = [arg EXCEPT ![t] = NoArg]
  /\ lastError' = tr_set_last_error_fmt(lastError, t, "channel_recv: timeout")
  /\ ev' = Event("recv", NULL, -3, NULL)
  /\ UNCHANGED <<chan, sentLog, recvLog, nOps, atClose>>
  /\ UNCHANGED <<quarVars, extVars>>

(* channel_close: set closed, wake every waiter of both conditions *)
channel_close(t) ==
  /\ pc[t] = "idle"
  /\ nOps < MaxOps
  /\ nOps' = nOps + 1
  /\ chan' = close_set(chan)
  /\ pc' = notify_all(pc)
  /\ atClose' = [u \in Threads |->
                   IF pc[u] = "send_wait" THEN "send"
                   ELSE IF pc[u] = "recv_wait" THEN "recv"
                   ELSE atClose[u]]
  /\ ev' = Event("close", NULL, 0, NULL)
  /\ UNCHANGED <<arg, lastError, sentLog, recvLog>>
  /\ UNCHANGED <<quarVars, extVars>>

(* tr_cond_timedwait: the wait of a timed waiter ends because its time passed *)
timedwait_expires(t) ==
  /\ pc[t] \in {"send_wait", "recv_wait"}
  /\ arg[t].tmo # 0
  /\ pc' = [pc EXCEPT ![t] = IF pc[t] = "send_wait" THEN "send_expired"
                                                     ELSE "recv_expired"]
  /\ ev' = Event("expire", NULL, 0, NULL)
  /\ UNCHANGED <<chan, arg, lastError, sentLog, recvLog, nOps, atClose>>
  /\ UNCHANGED <<quarVars, extVars>>

(* tr_cond_wait / tr_cond_timedwait: a wait may end with no notification
   (pthread_cond_wait allows spurious wakeups); it returns 0 *)
spurious_wakeup(t) ==
  /\ pc[t] \in {"send_wait", "recv_wait"}
  /\ pc' = [pc EXCEPT ![t] = IF pc[t] = "send_wait" THEN "send_woken"
                                                     ELSE "recv_woken"]
  /\ ev' = Event("spurious", NULL, 0, NULL)
  /\ UNCHANGED <<chan, arg, lastError, sentLog, recvLog, nOps, atClose>>
  /\ UNCHANGED <<quarVars, extVars>>

(* ----------------------------- Quarantine ----------------------------- *)

(* quarantine_create: capacity = initial_capacity ? initial_capacity : 16,
   count = 0, sealed = 0, calloc'ed items *)
quarantine_create(initial_capacity) ==
  [items |-> [i \in 0..(initial_capacity - 1) |-> NULL],
   count |-> 0, capacity |-> initial_capacity, sealed |-> FALSE]

(* if (q->count < q->capacity) return 0 *)
grow_not_needed(qq) == qq.count < qq.capacity

(* quarantine_grow_if_needed, realloc succeeding: newcap = capacity * 2; the
   slots realloc adds are not initialised *)
quarantine_grow(qq) ==
  [qq EXCEPT !.items = [i \in 0..(2 * qq.capacity - 1) |->
                          IF i < qq.capacity THEN qq.items[i] ELSE Garbage],
             !.capacity = 2 * qq.capacity]

(* the slot is counted but the pointer is not stored in it *)
alloc_record_count_only(qq, p) ==
  [qq EXCEPT !.count = qq.count + 1]

(* q->items[q->count++] = p *)
alloc_record(qq, p) ==
  [qq EXCEPT !.items[qq.count] = p, !.count = qq.count + 1]

(* the pointers the quarantine tracks: items[0 .. count-1] *)
Tracked(qq) == {qq.items[i] : i \in 0..(qq.count - 1)}

(* the scan stops one slot early and never looks at the last tracked pointer *)
free_find_skips_last(qq, ptr) ==
  IF \E i \in 0..(qq.count - 2) : qq.items[i] = ptr
  THEN CHOOSE i \in 0..(qq.count - 2) :
         /\ qq.items[i] = ptr
         /\ \A j \in 0..(i - 1) : qq.items[j] # ptr
  ELSE -1

(* for (i = 0; i < q->count; ++i) if (q->items[i] == ptr): the first hit, or -1 *)
free_find(qq, ptr) ==
  IF \E i \in 0..(qq.count - 1) : qq.items[i] = ptr
  THEN CHOOSE i \in 0..(qq.count - 1) :
         /\ qq.items[i] = ptr
         /\ \A j \in 0..(i - 1) : qq.items[j] # ptr
  ELSE -1

(* the last entry is not moved into the vacated slot: it drops out of the bag *)
free_remove_no_swap(qq, i) ==
  [qq EXCEPT !.items = [qq.items EXCEPT ![i] = NULL],
             !.count = qq.count - 1]

(* q->items[i] = q->items[q->count - 1]; q->items[q->count - 1] = NULL; q->count-- *)
free_remove(qq, i) ==
  [qq EXCEPT !.items = [qq.items EXCEPT ![i] = qq.items[qq.count - 1],
                                        ![qq.count - 1] = NULL],
             !.count = qq.count - 1]

(* q->sealed = 1 *)
seal_set(qq) == [qq EXCEPT !.sealed = TRUE]

(* the seal is not looked at *)
alloc_ignores_seal(qq) == FALSE

(* if (q->sealed) in quarantine_alloc *)
alloc_sees_sealed(qq) == qq.sealed

(* the slots quarantine_destroy passes to free(): i < count with items[i] != NULL *)
destroy_frees(qq) == {i \in 0..(qq.count - 1) : qq.items[i] # NULL}

(* quarantine_destroy: items = NULL, count = 0, capacity = 0 *)
destroy_clear(qq) ==
  [qq EXCEPT !.items = [i \in {} |-> NULL], !.count = 0, !.capacity = 0]

(* quarantine_grow_if_needed on a failed realloc: it is called by
   quarantine_alloc between lock and unlock of q->lock, and calls
   tr_set_last_error_fmt before it returns -1 *)
grow_failure_locks == Locked("q->lock", SetErrorLocks)

(* a quarantine call that returns without touching the quarantine or the heap;
   locks are the mutex operations it made *)
QuarFails(t, op, in, ret, msg, locks) ==
  /\ lastError' = tr_set_last_error_fmt(lastError, t, msg)
  /\ ev' = Event(op, in, ret, NULL)
  /\ lockLog' = locks
  /\ UNCHANGED <<q, qAlive, heap, given, owed, badFree>>

(* quarantine_alloc(q, size); reallocOk is what realloc answers if it is called,
   p what malloc returns if it is called: NULL, or an address not in use *)
quarantine_alloc(t, size, reallocOk, p) ==
  /\ qAlive
  /\ p \notin heap
  /\ pc[t] = "idle"
  /\ IF size = 0
     THEN QuarFails(t, "alloc", size, NULL, "quarantine_alloc: invalid args",
                    SetErrorLocks)
     ELSE IF alloc_sees_sealed(q)
     THEN QuarFails(t, "alloc", size, NULL, "quarantine_alloc: quarantined sealed",
                    Locked("q->lock", <<>>) \o SetErrorLocks)
     ELSE IF ~grow_not_needed(q) /\ ~reallocOk
     THEN QuarFails(t, "alloc", size, NULL,
                    "quarantine_grow_if_needed: realloc failed",
                    grow_failure_locks)
     ELSE LET grown == IF grow_not_needed(q) THEN q ELSE quarantine_grow(q)
          IN IF p = NULL
             THEN /\ q' = grown
                  /\ lastError' = tr_set_last_error_fmt(
                                    lastError, t, "quarantine_alloc: malloc failed")
                  /\ ev' = Event("alloc", size, NULL, NULL)
                  /\ lockLog' = Locked("q->lock", <<>>) \o SetErrorLocks
                  /\ UNCHANGED <<qAlive, heap, given, owed, badFree>>
             ELSE /\ q' = alloc_record(grown, p)
                  /\ heap' = heap \cup {p}
                  /\ given' = given \cup {p}
                  /\ owed' = owed + 1
                  /\ ev' = Event("alloc", size, p, NULL)
                  /\ lockLog' = Locked("q->lock", <<>>)
                  /\ UNCHANGED <<qAlive, badFree, lastError>>
  /\ UNCHANGED <<chanVars, extVars>>

(* quarantine_free(q, ptr) *)
quarantine_free(t, ptr) ==
  /\ qAlive
  /\ pc[t] = "idle"
  /\ IF ptr = NULL
     THEN QuarFails(t, "free", ptr, -1, "quarantine_free: invalid args",
                    SetErrorLocks)
     ELSE IF free_find(q, ptr) = -1
     THEN QuarFails(t, "free", ptr, -1, "quarantine_free: pointer not found",
                    Locked("q->lock", <<>>) \o SetErrorLocks)
     ELSE /\ q' = free_remove(q, free_find(q, ptr))
          /\ heap' = heap \ {ptr}
          /\ badFree' = (badFree \/ ptr \notin heap)
          /\ owed' = owed - 1
          /\ ev' = Event("free", ptr, 0, NULL)
          /\ lockLog' = Locked("q->lock", <<>>)
          /\ UNCHANGED <<qAlive, given, lastError>>
  /\ UNCHANGED <<chanVars, extVars>>

(* quarantine_seal(q) *)
quarantine_seal(t) ==
  /\ qAlive
  /\ pc[t] = "idle"
  /\ q' = seal_set(q)
  /\ ev' = Event("seal", NULL, 0, NULL)
  /\ lockLog' = Locked("q->lock", <<>>)
  /\ UNCHANGED <<qAlive, heap, given, owed, badFree, lastError>>
  /\ UNCHANGED <<chanVars, extVars>>

(* quarantine_destroy(q): free() on every slot below count that is not NULL,
   then the vector and the struct; the quarantine is gone afterwards *)
quarantine_destroy(t) ==
  /\ qAlive
  /\ pc[t] = "idle"
  /\ LET slots == destroy_frees(q)
         freed == {q.items[i] : i \in slots}
     IN /\ heap' = heap \ freed
        /\ owed' = owed - Cardinality(slots)
        /\ badFree' = (\/ badFree
                       \/ ~(freed \subseteq heap)
                       \/ Cardinality(freed) # Cardinality(slots))
  /\ q' = destroy_clear(q)
  /\ qAlive' = FALSE
  /\ ev' = Event("destroy", NULL, 0, Cardinality(destroy_frees(q)))
  /\ lockLog' = Locked("q->lock", <<>>)
  /\ UNCHANGED <<given, lastError>>
  /\ UNCHANGED <<chanVars, extVars>>

Sizes == {0, 8}        \* size argument of quarantine_alloc: zero or not

(* ------------------- Capsule and callback registry -------------------- *)

InboxCapacity == 32        \* channel_create(32) in tr_capsule_create
CapQuarCapacity == 16      \* quarantine_create(16) in tr_capsule_create
CbInitialCapacity == 4     \* r->capacity = 4 in callback_registry_create
NamePtr == 1               \* the address quarantine_alloc gave for the name

(* the pthread identity of worker w, apart from the calling threads *)
Wid(w) == NThreads + w

(* capsule_stop is emitted while running is still set *)
capsule_thread_start_stop_first ==
  <<"set_running", "capsule_start", "entry", "drain", "capsule_stop",
    "clear_running">>

(* the statements of capsule_thread_start in program order: c->running = 1;
   emit "capsule_start"; c->entry(c, c->user_ctx); the drain loop;
   c->running = 0; emit "capsule_stop" *)
capsule_thread_start ==
  <<"set_running", "capsule_start", "entry", "drain", "clear_running",
    "capsule_stop">>

Unborn == 0
Exited == Len(capsule_thread_start) + 1

(* a thread pthread_create has not made yet *)
NoWorker == [at |-> Unborn, sub |-> "none", r |-> NULL, snap |-> <<>>,
             idx |-> 0, cb |-> NULL]
NoLoc == [h |-> NULL, r |-> NULL, cb |-> NULL]
NoHist == [registered |-> <<>>, ups |-> 0, downs |-> 0, uaf |-> FALSE,
           obs |-> [w \in Workers |-> <<>>],
           got |-> [w \in Workers |-> <<>>],
           trace |-> [w \in Workers |-> <<>>]]

(* the statement worker w executes next *)
Stmt(w) ==
  IF wk[w].at \in 1..Len(capsule_thread_start)
  THEN capsule_thread_start[wk[w].at] ELSE "none"

(* callback_registry_create: count = 0, capacity = 4, lock free *)
callback_registry_create ==
  [callbacks |-> <<>>, capacity |-> CbInitialCapacity, lock |-> NoThread]

(* r->callbacks[r->count] = cb; r->count++, the vector doubled when full *)
registry_append(r, cb) ==
  [r EXCEPT !.callbacks = Append(@, cb),
            !.capacity = IF Len(r.callbacks) = r.capacity
                         THEN 2 * r.capacity ELSE r.capacity]

(* the registry lock is kept until the last callback has returned *)
emit_unlocks_after_callbacks == FALSE

(* callback_registry_emit: tr_mutex_unlock(&r->lock) comes before the loop
   that invokes the callbacks *)
emit_unlocks_before_callbacks == TRUE

(* tr_capsule_destroy has been called: it returned, or it waits in the join *)
DestroyCalled == cap.freed \/ \E t \in Threads : pc[t] = "destroy_wait"

(* an access to the Capsule struct or its inbox: made after free(c) it is a
   use of freed memory *)
Touch(h) == [h EXCEPT !.uaf = @ \/ cap.freed]

(* worker w has executed statement s *)
Did(h, w, s) == [h EXCEPT !.trace[w] = Append(@, s)]

(* the capsule, its workers and the registry before tr_capsule_create *)
CapIdle ==
  /\ cap = [running |-> FALSE, thread |-> NoThread, freed |-> FALSE]
  /\ wk = [w \in Workers |-> NoWorker]
  /\ loc = [t \in Threads |-> NoLoc]
  /\ g_callback_registry = NULL
  /\ cbRegs = <<>>
  /\ nextCb = 0
  /\ joined = {}
  /\ crashed = FALSE
  /\ hist = NoHist

(* worker w is at statement s of capsule_thread_start, outside any call *)
WorkerAt(w, s) ==
  /\ ~crashed
  /\ wk[w].sub = "none"
  /\ Stmt(w) = s

(* c->running = 1, by the worker thread itself *)
worker_set_running(w) ==
  /\ WorkerAt(w, "set_running")
  /\ cap' = [cap EXCEPT !.running = TRUE]
  /\ wk' = [wk EXCEPT ![w].at = @ + 1]
  /\ hist' = [Did(Touch(hist), w, "set_running") EXCEPT
                !.ups = IF cap.running THEN @ ELSE @ + 1]
  /\ ev' = Event("set_running", w, 0, NULL)
  /\ UNCHANGED <<loc, g_callback_registry, cbRegs, nextCb, joined, crashed>>
  /\ UNCHANGED <<chanVars, quarVars, lastError>>
  /\ UNCHANGED <<sysVars, b12Vars>>

(* if (g_callback_registry) callback_registry_emit(...): with no registry the
   statement does nothing; otherwise lock, copy the list, unlock.  mallocOk
   is whether the malloc of the copy succeeded: the copy loop writes through
   the pointer unchecked, so with callbacks to copy a failed malloc is an
   invalid write *)
worker_emit(w, mallocOk) ==
  /\ \/ WorkerAt(w, "capsule_start")
     \/ WorkerAt(w, "capsule_stop")
  /\ IF g_callback_registry = NULL
     THEN /\ wk' = [wk EXCEPT ![w].at = @ + 1]
          /\ hist' = Did(hist, w, Stmt(w))
          /\ ev' = Event(Stmt(w), w, 0, <<>>)
          /\ UNCHANGED <<cbRegs, crashed>>
     ELSE LET r == g_callback_registry
          IN /\ cbRegs[r].lock = NoThread
             /\ IF ~mallocOk /\ Len(cbRegs[r].callbacks) > 0
                THEN /\ crashed' = TRUE
                     /\ ev' = Event("fault", w, 0, NULL)
                     /\ UNCHANGED <<wk, hist, cbRegs>>
                ELSE /\ wk' = [wk EXCEPT ![w].sub = "cbs",
                                         ![w].r = r,
                                         ![w].snap = cbRegs[r].callbacks,
                                         ![w].idx = 1]
                     /\ cbRegs' = [cbRegs EXCEPT ![r].lock =
                                     IF emit_unlocks_before_callbacks
                                     THEN NoThread ELSE Wid(w)]
                     /\ hist' = Did(hist, w, Stmt(w))
                     /\ ev' = Event(Stmt(w), w, 0, cbRegs[r].callbacks)
                     /\ UNCHANGED crashed
  /\ UNCHANGED <<cap, loc, g_callback_registry, nextCb, joined>>
  /\ UNCHANGED <<chanVars, quarVars, lastError>>
  /\ UNCHANGED <<sysVars, b12Vars>>

(* cbs[i](c, evt, cctx[i]): the next callback of the copy is invoked and
   the observer receives the event; reenter is whether this callback calls
   tr_register_event_callback itself *)
worker_callback(w, reenter) ==
  /\ ~crashed
  /\ wk[w].sub = "cbs"
  /\ wk[w].idx <= Len(wk[w].snap)
  /\ reenter => nextCb < MaxCbs
  /\ wk' = [wk EXCEPT ![w].idx = @ + 1,
                      ![w].sub = IF reenter THEN "cb_lock" ELSE "cbs",
                      ![w].cb = IF reenter THEN nextCb + 1 ELSE NULL]
  /\ nextCb' = IF reenter THEN nextCb + 1 ELSE nextCb
  /\ hist' = [hist EXCEPT !.got[w] =
                Append(@, [cb |-> wk[w].snap[wk[w].idx], evt |-> Stmt(w),
                           late |-> cap.freed])]
  /\ ev' = Event("callback", wk[w].snap[wk[w].idx], 0, Stmt(w))
  /\ UNCHANGED <<cap, loc, g_callback_registry, cbRegs, joined, crashed>>
  /\ UNCHANGED <<chanVars, quarVars, lastError>>
  /\ UNCHANGED <<sysVars, b12Vars>>

(* tr_register_event_callback called from inside a callback, on the worker
   thread: the registry exists; lock, append, unlock, return 0 *)
worker_callback_registers(w) ==
  /\ ~crashed
  /\ wk[w].sub = "cb_lock"
  /\ LET r == g_callback_registry
     IN /\ cbRegs[r].lock = NoThread
        /\ cbRegs' = [cbRegs EXCEPT ![r] = registry_append(@, wk[w].cb)]
  /\ wk' = [wk EXCEPT ![w].sub = "cbs", ![w].cb = NULL]
  /\ hist' = [hist EXCEPT !.registered = Append(@, wk[w].cb)]
  /\ ev' = Event("register", wk[w].cb, 0, NULL)
  /\ UNCHANGED <<cap, loc, g_callback_registry, nextCb, joined, crashed>>
  /\ UNCHANGED <<chanVars, quarVars, lastError>>
  /\ UNCHANGED <<sysVars, b12Vars>>

(* callback_registry_emit returns after the last callback of the copy *)
worker_emit_done(w) ==
  /\ ~crashed
  /\ wk[w].sub = "cbs"
  /\ wk[w].idx > Len(wk[w].snap)
  /\ wk' = [wk EXCEPT ![w].at = @ + 1, ![w].sub = "none", ![w].r = NULL,
                      ![w].snap = <<>>, ![w].idx = 0]
  /\ cbRegs' = [cbRegs EXCEPT ![wk[w].r].lock =
                  IF @ = Wid(w) THEN NoThread ELSE @]
  /\ ev' = Event("emit_done", w, 0, NULL)
  /\ UNCHANGED <<cap, loc, g_callback_registry, nextCb, joined, crashed, hist>>
  /\ UNCHANGED <<chanVars, quarVars, lastError>>
  /\ UNCHANGED <<sysVars, b12Vars>>

(* rc = c->entry(c, c->user_ctx): the call *)
worker_entry_call(w) ==
  /\ WorkerAt(w, "entry")
  /\ wk' = [wk EXCEPT ![w].sub = "in_entry"]
  /\ hist' = Did(Touch(hist), w, "entry")
  /\ ev' = Event("entry", w, 0, NULL)
  /\ UNCHANGED <<cap, loc, g_callback_registry, cbRegs, nextCb, joined, crashed>>
  /\ UNCHANGED <<chanVars, quarVars, lastError>>
  /\ UNCHANGED <<sysVars, b12Vars>>

(* the entry procedure returns *)
worker_entry_return(w) ==
  /\ ~crashed
  /\ wk[w].sub = "in_entry"
  /\ wk' = [wk EXCEPT ![w].at = @ + 1, ![w].sub = "none"]
  /\ ev' = Event("entry_return", w, 0, NULL)
  /\ UNCHANGED <<cap, loc, g_callback_registry, cbRegs, nextCb, joined, crashed,
                 hist>>
  /\ UNCHANGED <<chanVars, quarVars, lastError>>
  /\ UNCHANGED <<sysVars, b12Vars>>

(* the broadcast of not_empty reaches no worker *)
worker_notify_none(k) == k

(* tr_cond_notify_all(&c->not_empty) on the inbox: every worker whose entry
   procedure waits in channel_recv leaves the wait *)
worker_notify_all(k) ==
  [w \in Workers |-> IF k[w].sub = "entry_wait"
                     THEN [k[w] EXCEPT !.sub = "entry_woken"] ELSE k[w]]

(* tr_cond_notify_one(&c->not_empty) on the inbox: one of the workers that
   wait in channel_recv leaves the wait, if there is one *)
worker_notify_one(k) ==
  IF \A w \in Workers : k[w].sub # "entry_wait"
  THEN {k}
  ELSE {[k EXCEPT ![w].sub = "entry_woken"] :
          w \in {v \in Workers : k[v].sub = "entry_wait"}}

(* an entry procedure that is the loop
     while (channel_recv(c->inbox, &msg, 1, 0) == 1) ;
   one pass of channel_recv with the lock held: an item keeps the entry in
   its loop, 0 on the closed and empty inbox makes it return, and on the
   open and empty inbox the worker waits on not_empty *)
worker_entry_recv(w) ==
  /\ ~crashed
  /\ wk[w].sub \in {"in_entry", "entry_woken"}
  /\ IF recv_empty(chan)
     THEN /\ IF recv_sees_closed(chan)
             THEN /\ wk' = [wk EXCEPT ![w].at = @ + 1, ![w].sub = "none"]
                  /\ ev' = Event("entry_recv", w, 0, NULL)
             ELSE /\ wk' = [wk EXCEPT ![w].sub = "entry_wait"]
                  /\ ev' = Event("entry_recv_blocks", w, 0, NULL)
          /\ UNCHANGED <<chan, pc, recvLog>>
     ELSE /\ chan' = recv_remove(chan)
          /\ recvLog' = Append(recvLog, recv_item(chan))
          /\ \E u \in notify_one(pc, "send_wait") :
               pc' = Wake(pc, u, "send_woken")
          /\ wk' = [wk EXCEPT ![w].sub = "in_entry"]
          /\ ev' = Event("entry_recv", w, 1, recv_item(chan))
  /\ hist' = Touch(hist)
  /\ UNCHANGED <<cap, loc, g_callback_registry, cbRegs, nextCb, joined, crashed>>
  /\ UNCHANGED <<arg, sentLog, nOps, atClose, quarVars, lastError>>
  /\ UNCHANGED <<sysVars, b12Vars>>

(* tr_cond_wait in the entry's channel_recv ends with no notification *)
worker_entry_spurious(w) ==
  /\ ~crashed
  /\ wk[w].sub = "entry_wait"
  /\ wk' = [wk EXCEPT ![w].sub = "entry_woken"]
  /\ ev' = Event("spurious", w, 0, NULL)
  /\ UNCHANGED <<cap, loc, g_callback_registry, cbRegs, nextCb, joined, crashed,
                 hist>>
  /\ UNCHANGED <<chanVars, quarVars, lastError>>
  /\ UNCHANGED <<sysVars, b12Vars>>

(* while (channel_recv(c->inbox, &msg, 0, 0) == 1): one non-blocking recv;
   an item keeps the worker in the loop, anything else (0 on a closed and
   empty inbox, -2 on an open and empty one) ends it *)
worker_drain(w) ==
  /\ WorkerAt(w, "drain")
  /\ IF recv_empty(chan)
     THEN /\ wk' = [wk EXCEPT ![w].at = @ + 1]
          /\ lastError' = IF recv_sees_closed(chan) THEN lastError
                          ELSE tr_set_last_error_fmt(lastError, Wid(w),
                                                     "channel_recv: would block")
          /\ hist' = Did(Touch(hist), w, "recv_none")
          /\ ev' = Event("drain", w, IF recv_sees_closed(chan) THEN 0 ELSE -2,
                         NULL)
          /\ UNCHANGED <<chan, pc, recvLog>>
     ELSE /\ chan' = recv_remove(chan)
          /\ recvLog' = Append(recvLog, recv_item(chan))
          /\ \E u \in notify_one(pc, "send_wait") :
               pc' = Wake(pc, u, "send_woken")
          /\ hist' = Did(Touch(hist), w, "recv_item")
          /\ ev' = Event("drain", w, 1, recv_item(chan))
          /\ UNCHANGED <<wk, lastError>>
  /\ UNCHANGED <<cap, loc, g_callback_registry, cbRegs, nextCb, joined, crashed>>
  /\ UNCHANGED <<arg, sentLog, nOps, atClose, quarVars>>
  /\ UNCHANGED <<sysVars, b12Vars>>

(* c->running = 0 *)
worker_clear_running(w) ==
  /\ WorkerAt(w, "clear_running")
  /\ cap' = [cap EXCEPT !.running = FALSE]
  /\ wk' = [wk EXCEPT ![w].at = @ + 1]
  /\ hist' = [Did(Touch(hist), w, "clear_running") EXCEPT
                !.downs = IF cap.running THEN @ + 1 ELSE @]
  /\ ev' = Event("clear_running", w, 0, NULL)
  /\ UNCHANGED <<loc, g_callback_registry, cbRegs, nextCb, joined, crashed>>
  /\ UNCHANGED <<chanVars, quarVars, lastError>>
  /\ UNCHANGED <<sysVars, b12Vars>>

(* an access of the worker to the freed Capsule or inbox ends the process
   instead of reading what the memory held before *)
worker_fault(w) ==
  /\ cap.freed
  /\ \/ WorkerAt(w, "set_running")
     \/ WorkerAt(w, "entry")
     \/ WorkerAt(w, "drain")
     \/ WorkerAt(w, "clear_running")
  /\ crashed' = TRUE
  /\ hist' = Touch(hist)
  /\ ev' = Event("fault", w, 0, NULL)
  /\ UNCHANGED <<cap, wk, loc, g_callback_registry, cbRegs, nextCb, joined>>
  /\ UNCHANGED <<chanVars, quarVars, lastError>>
  /\ UNCHANGED <<sysVars, b12Vars>>

(* a capsule call of thread t may begin: t is outside any call, the process
   lives, and the capsule has not been handed to tr_capsule_destroy *)
CapCall(t) ==
  /\ ~crashed
  /\ pc[t] = "idle"
  /\ ~DestroyCalled

(* a call that returns with nothing but the caller's message changed *)
CapFails(t, op, ret, msg) ==
  /\ lastError' = tr_set_last_error_fmt(lastError, t, msg)
  /\ ev' = Event(op, NULL, ret, NULL)
  /\ UNCHANGED <<capVars, chanVars, quarVars, sysVars, b12Vars>>

(* tr_capsule_start(c): refuses while running is set, otherwise creates the
   worker thread; createOk is whether tr_thread_create succeeds.  running is
   not written here: the worker writes it *)
tr_capsule_start(t, createOk) ==
  /\ CapCall(t)
  /\ IF cap.running
     THEN CapFails(t, "start", -1, "tr_capsule_start: already running")
     ELSE IF ~createOk
     THEN CapFails(t, "start", -1, "tr_capsule_start: thread create failed")
     ELSE /\ \E w \in Workers : wk[w].at = Unborn
          /\ LET w == CHOOSE w \in Workers :
                        /\ wk[w].at = Unborn
                        /\ \A v \in Workers : wk[v].at = Unborn => w <= v
             IN /\ wk' = [wk EXCEPT ![w].at = 1]
                /\ cap' = [cap EXCEPT !.thread = w]
                /\ hist' = [hist EXCEPT !.obs[w] = hist.registered]
                /\ ev' = Event("start", NULL, 0, w)
          /\ UNCHANGED <<loc, g_callback_registry, cbRegs, nextCb, joined,
                         crashed, lastError>>
          /\ UNCHANGED <<chanVars, quarVars>>
  /\ UNCHANGED <<sysVars, b12Vars>>

(* tr_capsule_join(c): returns 0 at once if running is clear, otherwise goes
   into tr_thread_join(c->thread) *)
tr_capsule_join(t) ==
  /\ CapCall(t)
  /\ IF ~cap.running
     THEN /\ ev' = Event("join", NULL, 0, NULL)
          /\ UNCHANGED <<pc, loc>>
     ELSE /\ pc' = [pc EXCEPT ![t] = "join_wait"]
          /\ loc' = [loc EXCEPT ![t].h = cap.thread]
          /\ ev' = Event("join_blocks", NULL, 0, cap.thread)
  /\ UNCHANGED <<cap, wk, g_callback_registry, cbRegs, nextCb, joined, crashed,
                 hist, lastError>>
  /\ UNCHANGED <<chan, arg, sentLog, recvLog, nOps, atClose, quarVars>>
  /\ UNCHANGED <<sysVars, b12Vars>>

(* pthread_join(h) can return: the thread has ended *)
ThreadEnded(h) == wk[h].at = Exited

(* tr_thread_join returns to tr_capsule_join.  A handle pthread_join has
   already returned for is no longer valid: joining it again is undefined,
   the call answers 0 or an error *)
tr_capsule_join_returns(t, staleOk) ==
  /\ ~crashed
  /\ pc[t] = "join_wait"
  /\ ThreadEnded(loc[t].h)
  /\ pc' = [pc EXCEPT ![t] = "idle"]
  /\ loc' = [loc EXCEPT ![t] = NoLoc]
  /\ joined' = joined \cup {loc[t].h}
  /\ IF loc[t].h \in joined /\ ~staleOk
     THEN /\ lastError' = tr_set_last_error_fmt(
                            lastError, t, "tr_thread_join: pthread_join failed")
          /\ ev' = Event("join", NULL, -1, loc[t].h)
     ELSE /\ ev' = Event("join", NULL, 0, loc[t].h)
          /\ UNCHANGED lastError
  /\ UNCHANGED <<cap, wk, g_callback_registry, cbRegs, nextCb, crashed, hist>>
  /\ UNCHANGED <<chan, arg, sentLog, recvLog, nOps, atClose, quarVars>>
  /\ UNCHANGED <<sysVars, b12Vars>>

(* channel_destroy(c->inbox); quarantine_destroy(c->q); free(c): the tail of
   tr_capsule_destroy, after which the call returns *)
CapsuleFreed ==
  /\ cap' = [cap EXCEPT !.freed = TRUE]
  /\ LET slots == destroy_frees(q)
         freed == {q.items[i] : i \in slots}
     IN /\ heap' = heap \ freed
        /\ owed' = owed - Cardinality(slots)
        /\ badFree' = (\/ badFree
                       \/ ~(freed \subseteq heap)
                       \/ Cardinality(freed) # Cardinality(slots))
  /\ q' = destroy_clear(q)
  /\ qAlive' = FALSE
  /\ lockLog' = Locked("q->lock", <<>>)
  /\ UNCHANGED given

(* tr_capsule_destroy(c): only if running is set it closes the inbox, which
   wakes every waiter of the inbox, and goes into tr_thread_join(c->thread);
   otherwise it frees at once *)
tr_capsule_destroy(t) ==
  /\ CapCall(t)
  /\ IF cap.running
     THEN /\ chan' = close_set(chan)
          /\ pc' = [notify_all(pc) EXCEPT ![t] = "destroy_wait"]
          /\ loc' = [loc EXCEPT ![t].h = cap.thread]
          /\ wk' = worker_notify_all(wk)
          /\ ev' = Event("destroy_blocks", NULL, 0, cap.thread)
          /\ UNCHANGED <<cap, quarVars>>
     ELSE /\ CapsuleFreed
          /\ ev' = Event("capsule_destroy", NULL, 0, NULL)
          /\ UNCHANGED <<chan, pc, loc, wk>>
  /\ UNCHANGED <<g_callback_registry, cbRegs, nextCb, joined, crashed, hist,
                 lastError>>
  /\ UNCHANGED <<arg, sentLog, recvLog, nOps, atClose>>
  /\ UNCHANGED <<sysVars, b12Vars>>

(* tr_thread_join returns to tr_capsule_destroy, which frees and returns *)
tr_capsule_destroy_returns(t) ==
  /\ ~crashed
  /\ pc[t] = "destroy_wait"
  /\ ThreadEnded(loc[t].h)
  /\ pc' = [pc EXCEPT ![t] = "idle"]
  /\ loc' = [loc EXCEPT ![t] = NoLoc]
  /\ joined' = joined \cup {loc[t].h}
  /\ CapsuleFreed
  /\ ev' = Event("capsule_destroy", NULL, 0, loc[t].h)
  /\ UNCHANGED <<wk, g_callback_registry, cbRegs, nextCb, crashed, hist,
                 lastError>>
  /\ UNCHANGED <<chan, arg, sentLog, recvLog, nOps, atClose>>
  /\ UNCHANGED <<sysVars, b12Vars>>

(* tr_capsule_send(c, msg): channel_send(c->inbox, msg, 1, 0).  Only the
   workers receive from the inbox, so the waiter its notify_one wakes after
   an insert is a worker *)
tr_capsule_send(t, msg) ==
  /\ CapCall(t)
  /\ nOps < MaxMsgs
  /\ nOps < MaxOps
  /\ nOps' = nOps + 1
  /\ SendLocked(t, msg, TRUE, 0, send_sees_closed(chan), "channel_send: closed")
  /\ wk' \in IF send_sees_closed(chan) \/ send_full(chan)
              THEN {wk} ELSE worker_notify_one(wk)
  /\ UNCHANGED <<recvLog, atClose, quarVars>>
  /\ UNCHANGED <<cap, loc, g_callback_registry, cbRegs, nextCb, joined, crashed,
                 hist>>
  /\ UNCHANGED <<sysVars, b12Vars>>

(* tr_register_event_callback(cb, ctx), cb not NULL, up to the test of the
   global: a thread that finds it NULL goes on to create the registry *)
tr_register_event_callback(t) ==
  /\ ~crashed
  /\ pc[t] = "idle"
  /\ nextCb < MaxCbs
  /\ nextCb' = nextCb + 1
  /\ pc' = [pc EXCEPT ![t] = IF g_callback_registry = NULL
                             THEN "reg_create" ELSE "reg_lock"]
  /\ loc' = [loc EXCEPT ![t].cb = nextCb + 1]
  /\ ev' = Event("register_call", nextCb + 1, 0, NULL)
  /\ UNCHANGED <<cap, wk, g_callback_registry, cbRegs, joined, crashed, hist,
                 lastError>>
  /\ UNCHANGED <<chan, arg, sentLog, recvLog, nOps, atClose, quarVars>>
  /\ UNCHANGED <<sysVars, b12Vars>>

(* g_callback_registry = callback_registry_create(), by a thread that found
   the global NULL; mallocOk is whether the struct could be allocated: the
   NULL result is not checked and the lock of a NULL registry is taken *)
register_creates_registry(t, mallocOk) ==
  /\ ~crashed
  /\ pc[t] = "reg_create"
  /\ IF mallocOk
     THEN /\ cbRegs' = Append(cbRegs, callback_registry_create)
          /\ g_callback_registry' = Len(cbRegs) + 1
          /\ pc' = [pc EXCEPT ![t] = "reg_lock"]
          /\ ev' = Event("registry_create", NULL, 0, Len(cbRegs) + 1)
          /\ UNCHANGED crashed
     ELSE /\ crashed' = TRUE
          /\ ev' = Event("fault", NULL, 0, NULL)
          /\ UNCHANGED <<cbRegs, g_callback_registry, pc>>
  /\ UNCHANGED <<cap, wk, loc, nextCb, joined, hist, lastError>>
  /\ UNCHANGED <<chan, arg, sentLog, recvLog, nOps, atClose, quarVars>>
  /\ UNCHANGED <<sysVars, b12Vars>>

(* r = g_callback_registry; lock; append, growing the vectors when full;
   unlock; return 0.  reallocOk is what the two reallocs answer when the
   vectors are full *)
register_appends(t, reallocOk) ==
  /\ ~crashed
  /\ pc[t] = "reg_lock"
  /\ LET r == g_callback_registry
         full == Len(cbRegs[r].callbacks) = cbRegs[r].capacity
     IN /\ cbRegs[r].lock = NoThread
        /\ IF full /\ ~reallocOk
           THEN /\ lastError' = tr_set_last_error_fmt(
                      lastError, t, "tr_register_event_callback: realloc failed")
                /\ ev' = Event("register", loc[t].cb, -1, NULL)
                /\ UNCHANGED <<cbRegs, hist>>
           ELSE /\ cbRegs' = [cbRegs EXCEPT ![r] = registry_append(@, loc[t].cb)]
                /\ hist' = [hist EXCEPT !.registered = Append(@, loc[t].cb)]
                /\ ev' = Event("register", loc[t].cb, 0, r)
                /\ UNCHANGED lastError
  /\ pc' = [pc EXCEPT ![t] = "idle"]
  /\ loc' = [loc EXCEPT ![t] = NoLoc]
  /\ UNCHANGED <<cap, wk, g_callback_registry, nextCb, joined, crashed>>
  /\ UNCHANGED <<chan, arg, sentLog, recvLog, nOps, atClose, quarVars>>
  /\ UNCHANGED <<sysVars, b12Vars>>

(* -------------------------- Syscall registry -------------------------- *)

SysInitialCapacity == 8    \* r->capacity = 8 in syscall_registry_create
SysNames == {"a", "b"}     \* the names syscalls are registered and invoked by
HandlerRcs == {0, 7}       \* what a handler returns: zero or not

(* the auth tokens: C strings, the texts of at most MaxTokLen bytes 'k' *)
TokenStrings == {[i \in 1..n |-> "k"] : n \in 0..MaxTokLen}

(* the NULL auth_token: no string, a string holds no NUL byte *)
NullTok == <<"NUL">>

AuthTokens == TokenStrings \cup {NullTok}

NoSysLoc == [name |-> "", token |-> NullTok, h |-> NULL, flags |-> 0,
             etoken |-> NullTok]

(* syscall_registry_create: count = 0, capacity = 8 *)
syscall_registry_create == [entries |-> <<>>, capacity |-> SysInitialCapacity]

(* the comparison stops at the end of the shorter text: a prefix matches *)
strcmp_differs_within_shorter(a, b) ==
  \E i \in 1..(IF Len(a) < Len(b) THEN Len(a) ELSE Len(b)) : a[i] # b[i]

(* strcmp(a, b) != 0: the texts differ in a byte or in length *)
strcmp_differs(a, b) == a # b

(* the scan keeps the last entry with that name, 0 if there is none *)
sys_find_last(r, name) ==
  IF \E i \in 1..Len(r.entries) : r.entries[i].name = name
  THEN CHOOSE i \in 1..Len(r.entries) :
         /\ r.entries[i].name = name
         /\ \A j \in (i + 1)..Len(r.entries) : r.entries[j].name # name
  ELSE 0

(* for (i = 0; i < r->count; ++i) if (strcmp(r->entries[i].name, name) == 0):
   the position of the first entry with that name, 0 if there is none *)
sys_find(r, name) ==
  IF \E i \in 1..Len(r.entries) : r.entries[i].name = name
  THEN CHOOSE i \in 1..Len(r.entries) :
         /\ r.entries[i].name = name
         /\ \A j \in 1..(i - 1) : r.entries[j].name # name
  ELSE 0

(* if (e->auth_token) if (!auth_token || strcmp(auth_token, e->auth_token) != 0) *)
auth_fails(e, auth_token) ==
  /\ e.auth_token # NullTok
  /\ \/ auth_token = NullTok
     \/ strcmp_differs(auth_token, e.auth_token)

(* r->entries[r->count] = {copy of name, handler, ctx, flags, copy of
   auth_token or NULL}; r->count++, the vector doubled when full *)
sys_append(r, e) ==
  [r EXCEPT !.entries = Append(@, e),
            !.capacity = IF Len(r.entries) = r.capacity
                         THEN 2 * r.capacity ELSE r.capacity]

(* the entries after the i-th move down by one slot *)
sys_remove_shift(r, i) ==
  [r EXCEPT !.entries =
     [j \in 1..(Len(r.entries) - 1) |->
        IF j < i THEN r.entries[j] ELSE r.entries[j + 1]]]

(* r->entries[i] = r->entries[r->count - 1]; r->count-- *)
sys_remove(r, i) ==
  [r EXCEPT !.entries =
     [j \in 1..(Len(r.entries) - 1) |->
        IF j = i THEN r.entries[Len(r.entries)] ELSE r.entries[j]]]

(* tr_audit_log: one record is written, to the audit file or to stderr *)
tr_audit_log(log, kind, name) == Append(log, [kind |-> kind, name |-> name])

(* every invocation is audited, whatever its flags *)
audit_always(flags) == TRUE

(* (e->flags & 1) != 0 *)
audit_bit(flags) == flags % 2 = 1

(* no syscall was registered yet, nothing was logged *)
SysIdle ==
  /\ g_syscall_registry = NULL
  /\ sysRegs = <<>>
  /\ sloc = [t \in Threads |-> NoSysLoc]
  /\ auditLog = <<>>
  /\ nSysOps = 0
  /\ nextH = 0

(* a registry call of thread t begins; nSysOps counts the calls made *)
SysCall(t) ==
  /\ ~crashed
  /\ pc[t] = "idle"
  /\ nSysOps' = nSysOps + 1

(* a call that returns with the caller's message set and nothing else *)
SysFails(t, op, name, token, ret, msg) ==
  /\ lastError' = tr_set_last_error_fmt(lastError, t, msg)
  /\ ev' = Event(op, [t |-> t, name |-> name, token |-> token], ret, NULL)
  /\ UNCHANGED <<pc, sloc, g_syscall_registry, sysRegs, auditLog, nextH,
                 crashed>>

(* tr_register_syscall_ex(name, handler, ctx, flags, auth_token, desc), name
   and handler not NULL, up to the test of the global: a thread that finds
   it NULL goes on to create the registry.  Every call passes a handler of
   its own *)
tr_register_syscall_ex(t, name, flags, auth_token) ==
  /\ SysCall(t)
  /\ nextH' = nextH + 1
  /\ pc' = [pc EXCEPT ![t] = IF g_syscall_registry = NULL
                             THEN "sysreg_create" ELSE "sysreg_lock"]
  /\ sloc' = [sloc EXCEPT ![t] = [NoSysLoc EXCEPT !.name = name,
                                                  !.token = auth_token,
                                                  !.flags = flags,
                                                  !.h = nextH + 1]]
  /\ ev' = Event("sysreg_call", [t |-> t, name |-> name, token |-> auth_token],
                 0, nextH + 1)
  /\ UNCHANGED <<g_syscall_registry, sysRegs, auditLog, crashed,
                 lastError>>
  /\ UNCHANGED <<chan, arg, sentLog, recvLog, nOps, atClose, quarVars, capVars,
                 b12Vars>>

(* g_syscall_registry = syscall_registry_create(), by a thread that found the
   global NULL; mallocOk is whether the registry could be allocated: the
   NULL result is not checked and the lock of a NULL registry is taken *)
register_creates_sysregistry(t, mallocOk) ==
  /\ ~crashed
  /\ pc[t] = "sysreg_create"
  /\ IF mallocOk
     THEN /\ sysRegs' = Append(sysRegs, syscall_registry_create)
          /\ g_syscall_registry' = Len(sysRegs) + 1
          /\ pc' = [pc EXCEPT ![t] = "sysreg_lock"]
          /\ ev' = Event("sysregistry_create", NULL, 0, Len(sysRegs) + 1)
          /\ UNCHANGED crashed
     ELSE /\ crashed' = TRUE
          /\ ev' = Event("fault", NULL, 0, NULL)
          /\ UNCHANGED <<sysRegs, g_syscall_registry, pc>>
  /\ UNCHANGED <<sloc, auditLog, nSysOps, nextH, lastError>>
  /\ UNCHANGED <<chan, arg, sentLog, recvLog, nOps, atClose, quarVars>>
  /\ UNCHANGED <<cap, wk, loc, g_callback_registry, cbRegs, nextCb, joined, hist,
                 b12Vars>>

(* r = g_syscall_registry; lock; grow the vector when full; copy the name;
   store the entry; unlock; audit "syscall_registered"; return 0.  reallocOk
   and mallocOk are what the realloc of the vector and the malloc of the
   name copy answer; the strdup of the token yields a copy of it *)
register_syscall_appends(t, reallocOk, mallocOk) ==
  /\ ~crashed
  /\ pc[t] = "sysreg_lock"
  /\ LET r == g_syscall_registry
         full == Len(sysRegs[r].entries) = sysRegs[r].capacity
         in == [t |-> t, name |-> sloc[t].name, token |-> sloc[t].token]
     IN IF full /\ ~reallocOk
        THEN /\ lastError' = tr_set_last_error_fmt(
                   lastError, t, "tr_register_syscall_ex: realloc failed")
             /\ ev' = Event("sysreg", in, -1, NULL)
             /\ UNCHANGED <<sysRegs, auditLog>>
        ELSE IF ~mallocOk
        THEN /\ lastError' = tr_set_last_error_fmt(
                   lastError, t, "tr_register_syscall_ex: OOM name copy")
             /\ ev' = Event("sysreg", in, -1, NULL)
             /\ sysRegs' = [sysRegs EXCEPT ![r].capacity =
                              IF full THEN 2 * @ ELSE @]
             /\ UNCHANGED auditLog
        ELSE /\ sysRegs' = [sysRegs EXCEPT ![r] =
                  sys_append(@, [name |-> sloc[t].name, handler |-> sloc[t].h,
                                 flags |-> sloc[t].flags,
                                 auth_token |-> sloc[t].token])]
             /\ auditLog' = tr_audit_log(auditLog, "syscall_registered",
                                         sloc[t].name)
             /\ ev' = Event("sysreg", in, 0, sloc[t].h)
             /\ UNCHANGED lastError
  /\ pc' = [pc EXCEPT ![t] = "idle"]
  /\ sloc' = [sloc EXCEPT ![t] = NoSysLoc]
  /\ UNCHANGED <<g_syscall_registry, nSysOps, nextH, crashed>>
  /\ UNCHANGED <<chan, arg, sentLog, recvLog, nOps, atClose, quarVars>>
  /\ UNCHANGED <<cap, wk, loc, g_callback_registry, cbRegs, nextCb, joined, hist,
                 b12Vars>>

(* tr_unregister_syscall(name): the first entry with that name is released,
   the last entry moved into its slot; audit "syscall_unregistered" *)
tr_unregister_syscall(t, name) ==
  /\ SysCall(t)
  /\ IF g_syscall_registry = NULL
     THEN SysFails(t, "unregister", name, NullTok, -1,
                   "tr_unregister_syscall: no registry")
     ELSE LET r == g_syscall_registry
              i == sys_find(sysRegs[r], name)
          IN IF i = 0
             THEN SysFails(t, "unregister", name, NullTok, -1,
                           "tr_unregister_syscall: not found")
             ELSE /\ sysRegs' = [sysRegs EXCEPT ![r] = sys_remove(@, i)]
                  /\ auditLog' = tr_audit_log(auditLog, "syscall_unregistered",
                                              name)
                  /\ ev' = Event("unregister",
                                 [t |-> t, name |-> name, token |-> NullTok],
                                 0, sysRegs[r].entries[i].handler)
                  /\ UNCHANGED <<pc, sloc, g_syscall_registry, nextH,
                                 crashed, lastError>>
  /\ UNCHANGED <<chan, arg, sentLog, recvLog, nOps, atClose, quarVars>>
  /\ UNCHANGED <<cap, wk, loc, g_callback_registry, cbRegs, nextCb, joined, hist,
                 b12Vars>>

(* tr_invoke_syscall_ex(name, args, auth_token, out), name not NULL, up to
   the unlock: no registry returns -2, no entry with the name -3; the first
   entry with the name decides: if it has a token and the caller's is NULL or
   differs the call logs "syscall_invoke_failed_auth" and returns -4,
   otherwise handler, ctx and audit bit are copied and the call goes on *)
tr_invoke_syscall_ex(t, name, auth_token) ==
  /\ SysCall(t)
  /\ IF g_syscall_registry = NULL
     THEN SysFails(t, "invoke", name, auth_token, -2,
                   "tr_invoke_syscall_ex: no registry")
     ELSE LET r == g_syscall_registry
              i == sys_find(sysRegs[r], name)
              e == sysRegs[r].entries[i]
              in == [t |-> t, name |-> name, token |-> auth_token]
          IN IF i = 0
             THEN SysFails(t, "invoke", name, auth_token, -3,
                           "tr_invoke_syscall_ex: not found")
             ELSE IF auth_fails(e, auth_token)
             THEN /\ lastError' = tr_set_last_error_fmt(
                        lastError, t,
                        "tr_invoke_syscall_ex: auth failed for " \o name)
                  /\ auditLog' = tr_audit_log(
                        auditLog, "syscall_invoke_failed_auth", name)
                  /\ ev' = Event("invoke", in, -4, NULL)
                  /\ UNCHANGED <<pc, sloc>>
             ELSE /\ pc' = [pc EXCEPT ![t] = "invoke_call"]
                  /\ sloc' = [sloc EXCEPT ![t] =
                                [name |-> name, token |-> auth_token,
                                 h |-> e.handler, flags |-> e.flags,
                                 etoken |-> e.auth_token]]
                  /\ ev' = Event("invoke_dispatch", in, 0, e.handler)
                  /\ UNCHANGED <<auditLog, lastError>>
  /\ UNCHANGED <<g_syscall_registry, sysRegs, nextH, crashed>>
  /\ UNCHANGED <<chan, arg, sentLog, recvLog, nOps, atClose, quarVars>>
  /\ UNCHANGED <<cap, wk, loc, g_callback_registry, cbRegs, nextCb, joined, hist,
                 b12Vars>>

(* tr_invoke_syscall_ex after the unlock: audit "syscall_invoke" if the audit
   bit was set, then the handler is called *)
invoke_calls_handler(t) ==
  /\ ~crashed
  /\ pc[t] = "invoke_call"
  /\ auditLog' = IF audit_bit(sloc[t].flags)
                 THEN tr_audit_log(auditLog, "syscall_invoke", sloc[t].name)
                 ELSE auditLog
  /\ ev' = Event("handler",
                 [t |-> t, name |-> sloc[t].name, token |-> sloc[t].token],
                 0, sloc[t].h)
  /\ pc' = [pc EXCEPT ![t] = "in_handler"]
  /\ UNCHANGED <<sloc, lastError>>
  /\ UNCHANGED <<g_syscall_registry, sysRegs, nSysOps, nextH, crashed>>
  /\ UNCHANGED <<chan, arg, sentLog, recvLog, nOps, atClose, quarVars>>
  /\ UNCHANGED <<cap, wk, loc, g_callback_registry, cbRegs, nextCb, joined, hist,
                 b12Vars>>

(* the handler returns rc, having set the caller's message (setsError) or
   not; audit "syscall_invoke_result" with the name and rc if the audit bit
   was set; a non-zero rc with an empty message slot gets the synthesized
   message; return rc *)
invoke_handler_returns(t, rc, setsError) ==
  /\ ~crashed
  /\ pc[t] = "in_handler"
  /\ LET name == sloc[t].name
         after == IF setsError
                  THEN tr_set_last_error_fmt(lastError, t, "handler: failed")
                  ELSE lastError
     IN /\ auditLog' =
             IF audit_bit(sloc[t].flags)
             THEN tr_audit_log(auditLog, "syscall_invoke_result",
                               name \o " rc=" \o ToString(rc))
             ELSE auditLog
        /\ lastError' =
             IF rc # 0 /\ after[t] = NoErr
             THEN tr_set_last_error_fmt(
                    after, t,
                    "syscall handler " \o name \o " returned " \o ToString(rc))
             ELSE after
        /\ ev' = Event("invoke_return",
                       [t |-> t, name |-> name, token |-> sloc[t].token],
                       rc, [h |-> sloc[t].h, setsError |-> setsError])
  /\ pc' = [pc EXCEPT ![t] = "idle"]
  /\ sloc' = [sloc EXCEPT ![t] = NoSysLoc]
  /\ UNCHANGED <<g_syscall_registry, sysRegs, nSysOps, nextH, crashed>>
  /\ UNCHANGED <<chan, arg, sentLog, recvLog, nOps, atClose, quarVars>>
  /\ UNCHANGED <<cap, wk, loc, g_callback_registry, cbRegs, nextCb, joined, hist,
                 b12Vars>>


(* ------------------------ Base-12 conversions ------------------------- *)

(* DG_DIGITS[] = "0123456789ab", a text being the sequence of its chars *)
DG_DIGITS == <<"0", "1", "2", "3", "4", "5", "6", "7", "8", "9", "a", "b">>

(* only the lower-case letters are digits *)
digit_of_lower_only(c) ==
  IF \E d \in 1..12 : DG_DIGITS[d] = c
  THEN (CHOOSE d \in 1..12 : DG_DIGITS[d] = c) - 1
  ELSE -1

(* the value of a char as a base-12 digit: '0'..'9', 'a' or 'A', 'b' or 'B';
   -1 for any other char *)
digit_of(c) ==
  IF \E d \in 1..10 : DG_DIGITS[d] = c
  THEN (CHOOSE d \in 1..10 : DG_DIGITS[d] = c) - 1
  ELSE IF c \in {"a", "A"} THEN 10
  ELSE IF c \in {"b", "B"} THEN 11
  ELSE -1

(* no conversion was asked for *)
NoB12 == [at |-> "none", t |-> NoThread, bytes |-> <<>>, scale |-> 0,
          outlen |-> 0, rc |-> 0, text |-> <<>>, drc |-> 0,
          out_bytes |-> <<>>, out_scale |-> 0, val |-> 0]

(* bn_is_zero: every byte is 0 *)
bn_is_zero(bn) == \A i \in 1..Len(bn) : bn[i] = 0

(* bn_divmod_small from byte i on, rem carried in from the bytes before:
   acc = (rem << 8) | bn[i]; bn[i] = (uint8_t)(acc / divisor);
   rem = acc % divisor *)
RECURSIVE divmod_from(_, _, _, _)
divmod_from(bn, i, rem, divisor) ==
  IF i > Len(bn)
  THEN [bn |-> bn, rem |-> rem]
  ELSE LET acc == rem * 256 + bn[i]
       IN divmod_from([bn EXCEPT ![i] = (acc \div divisor) % 256],
                      i + 1, acc % divisor, divisor)

(* bn_divmod_small(bn, len, divisor, &rem): the quotient, big-endian, in
   place of bn, and the remainder *)
bn_divmod_small(bn, divisor) == divmod_from(bn, 1, 0, divisor)

(* the loop of bytes_to_base12: while (!bn_is_zero(bn)) { divide by 12;
   rev[rpos++] = DG_DIGITS[rem]; if (rpos + 2 >= size) break; } *)
RECURSIVE rev_digits(_, _, _)
rev_digits(bn, rev, size) ==
  IF bn_is_zero(bn)
  THEN rev
  ELSE LET d == bn_divmod_small(bn, 12)
           r == Append(rev, DG_DIGITS[d.rem + 1])
       IN IF Len(r) + 2 >= size THEN r ELSE rev_digits(d.bn, r, size)

(* the digits are copied out in the order they were produced *)
rev_copied_forward(s) == s

(* the chars of a text in the opposite order *)
Reverse(s) == [i \in 1..Len(s) |-> s[Len(s) + 1 - i]]

(* a conversion that failed: the return code and the message it set *)
B12Fails(rc, msg) == [rc |-> rc, out |-> <<>>, msg |-> msg, written |-> 0]

(* a conversion that wrote the text out and its NUL *)
B12Text(out) == [rc |-> 0, out |-> out, msg |-> NoErr, written |-> Len(out) + 1]

(* bytes_to_base12(bytes, len, out, outlen), out not NULL: the integer form
   of the big-endian magnitude, most significant digit first *)
bytes_to_base12(bytes, outlen) ==
  IF outlen = 0
  THEN B12Fails(-1, "bytes_to_base12: invalid output buffer")
  ELSE IF Len(bytes) = 0
  THEN IF outlen < 2
       THEN B12Fails(-1, "bytes_to_base12: outlen too small")
       ELSE B12Text(<<"0">>)
  ELSE LET digits == rev_digits(bytes, <<>>, Len(bytes) * 3 + 32)
           rev == IF Len(digits) = 0 THEN <<"0">> ELSE digits
       IN IF Len(rev) + 1 > outlen
          THEN B12Fails(-1, "bytes_to_base12: outlen too small")
          ELSE B12Text(Reverse(rev))

(* n chars '0' *)
Zeros(n) == [i \in 1..n |-> "0"]

(* size_t need = (size_t)(scale + 1 - (int)totlen): the zeros written after
   "0." when the integer form has at most scale digits *)
pad_need(scale, totlen) == scale + 1 - totlen

(* bytes_to_base12_scaled(bytes, len, scale, out, outlen), out not NULL:
   the integer form with a radix point put in; written is the number of
   bytes stored into out, the NUL included *)
bytes_to_base12_scaled(bytes, scale, outlen) ==
  IF scale < 0
  THEN B12Fails(-1, "bytes_to_base12_scaled: negative scale")
  ELSE IF outlen = 0
  THEN B12Fails(-1, NoErr)
  ELSE LET whole == bytes_to_base12(bytes, outlen + 16)
           tmp == whole.out
           totlen == Len(tmp)
       IN IF whole.rc # 0
          THEN whole
          ELSE IF scale = 0
          THEN IF totlen + 1 > outlen
               THEN B12Fails(-1, "bytes_to_base12_scaled: outlen too small")
               ELSE B12Text(tmp)
          ELSE IF totlen <= scale
          THEN LET need == pad_need(scale, totlen)
               IN IF need + totlen + 2 > outlen
                  THEN B12Fails(-1, "bytes_to_base12_scaled: outlen too small after pad")
                  ELSE B12Text(<<"0", ".">> \o Zeros(need) \o tmp)
          ELSE LET intpart == totlen - scale
               IN IF totlen + 2 > outlen
                  THEN B12Fails(-1, "bytes_to_base12_scaled: outlen too small for insertion")
                  ELSE B12Text(SubSeq(tmp, 1, intpart) \o <<".">> \o
                               SubSeq(tmp, intpart + 1, totlen))

(* size_t cap = 16; bn = calloc(cap, 1); bn_len = 1: the working buffer of
   the decoder, the number big-endian in its last bn_len bytes *)
InitialBnCap == 16
bn_create == [cap |-> InitialBnCap, bn |-> [i \in 0..(InitialBnCap - 1) |-> 0],
              bn_len |-> 1]

(* the loop of bn_mul12_add over the bytes i, i-1, .. 0 of the number:
   prod = cur * 12 + carry; byte = prod & 0xFF; carry = prod >> 8 *)
RECURSIVE mul12_from(_, _, _, _)
mul12_from(bn, first, i, carry) ==
  IF i < 0
  THEN [bn |-> bn, carry |-> carry]
  ELSE LET prod == bn[first + i] * 12 + carry
       IN mul12_from([bn EXCEPT ![first + i] = prod % 256], first, i - 1,
                     prod \div 256)

(* while (newcap < desired_len) newcap *= 2 *)
RECURSIVE grown_cap(_, _)
grown_cap(newcap, desired_len) ==
  IF newcap < desired_len THEN grown_cap(newcap * 2, desired_len) ELSE newcap

(* ensure_bn_len(desired_len): nothing if desired_len <= bn_len; otherwise a
   new zeroed buffer of newcap bytes with the bn_len bytes of the number
   copied to its end *)
ensure_bn_len(st, desired_len) ==
  IF desired_len <= st.bn_len
  THEN st
  ELSE LET newcap == grown_cap(st.cap, desired_len)
       IN [st EXCEPT
             !.cap = newcap,
             !.bn = [i \in 0..(newcap - 1) |->
                       IF i >= newcap - st.bn_len
                       THEN st.bn[i - newcap + st.cap]
                       ELSE 0]]

(* bn_mul12_add(digit): the number times 12 plus digit; on a carry out of
   the top byte: ensure_bn_len(bn_len + 1); ptr = bn + (cap - bn_len - 1);
   memmove(ptr + 1, ptr, bn_len); ptr[0] = (uint8_t)carry; bn_len++ *)
bn_mul12_add(st, digit) ==
  LET m == mul12_from(st.bn, st.cap - st.bn_len, st.bn_len - 1, digit)
      done == [st EXCEPT !.bn = m.bn]
  IN IF m.carry = 0
     THEN done
     ELSE LET e == ensure_bn_len(done, st.bn_len + 1)
              ptr == e.cap - st.bn_len - 1
              moved == [i \in 0..(e.cap - 1) |->
                          IF i \in (ptr + 1)..(ptr + st.bn_len)
                          THEN e.bn[i - 1]
                          ELSE e.bn[i]]
          IN [cap |-> e.cap,
              bn |-> [moved EXCEPT ![ptr] = m.carry % 256],
              bn_len |-> st.bn_len + 1]

(* the digit loop over the chars i.. of cs: '_' and ' ' are skipped, a digit
   goes through bn_mul12_add, any other char ends the parse *)
RECURSIVE parse_digits(_, _, _)
parse_digits(st, cs, i) ==
  IF i > Len(cs)
  THEN [ok |-> TRUE, st |-> st, c |-> ""]
  ELSE IF cs[i] \in {"_", " "}
  THEN parse_digits(st, cs, i + 1)
  ELSE IF digit_of(cs[i]) = -1
  THEN [ok |-> FALSE, st |-> st, c |-> cs[i]]
  ELSE parse_digits(bn_mul12_add(st, digit_of(cs[i])), cs, i + 1)

(* strchr(p, '.'): the position of the first '.', 0 if there is none *)
strchr_dot(p) ==
  IF \E i \in 1..Len(p) : p[i] = "."
  THEN CHOOSE i \in 1..Len(p) :
         p[i] = "." /\ \A j \in 1..(i - 1) : p[j] # "."
  ELSE 0

(* while (start < cap - 1 && bn[start] == 0) start++ *)
RECURSIVE trim_start(_, _)
trim_start(st, start) ==
  IF start < st.cap - 1 /\ st.bn[start] = 0
  THEN trim_start(st, start + 1)
  ELSE start

(* a parse that failed: the return code and the message it set *)
ParseFails(rc, msg) ==
  [rc |-> rc, out_bytes |-> <<>>, out_scale |-> 0, msg |-> msg]

(* base12_to_bytes_with_scale(s, &out_bytes, &out_len, &out_scale), no
   pointer NULL: an optional sign is skipped, the text is split at the first
   '.', the chars before and after it go through the digit loop, leading
   zero bytes are trimmed; out_scale = frac_len = strlen(frac) *)
base12_to_bytes_with_scale(s) ==
  LET p == IF Len(s) > 0 /\ s[1] \in {"+", "-"} THEN Tail(s) ELSE s
      dot == strchr_dot(p)
      whole == IF dot # 0 THEN SubSeq(p, 1, dot - 1) ELSE p
      frac == IF dot # 0 THEN SubSeq(p, dot + 1, Len(p)) ELSE <<>>
      frac_len == Len(frac)
      a == parse_digits(bn_create, whole, 1)
      b == parse_digits(a.st, frac, 1)
  IN IF ~a.ok
     THEN ParseFails(-2, "base12_to_bytes_with_scale: invalid digit '"
                         \o a.c \o "'")
     ELSE IF ~b.ok
     THEN ParseFails(-2, "base12_to_bytes_with_scale: invalid frac digit '"
                         \o b.c \o "'")
     ELSE LET start == trim_start(b.st, b.st.cap - b.st.bn_len)
              real_len == b.st.cap - start
          IN [rc |-> 0,
              out_bytes |-> [k \in 1..real_len |-> b.st.bn[start + k - 1]],
              out_scale |-> frac_len,
              msg |-> NoErr]

(* UINT64_MAX, in a word of WordBits bits *)
UINT64_MAX == 2 ^ WordBits - 1

(* the test is made on the value alone: the digit is not taken off *)
u64_overflows_ignoring_digit(val, d) == val > UINT64_MAX \div 12

(* if (val > (UINT64_MAX - d) / 12), before val = val * 12 + d *)
u64_overflows(val, d) == val > (UINT64_MAX - d) \div 12

(* a call of tr_from_base12_u64 that failed: -1 and the message it set *)
U64Fails(msg) == [rc |-> -1, val |-> 0, msg |-> msg]

(* the loop over the chars of p: a digit is added after the overflow test, '_' and ' ' are
   skipped, any other char ends the call; the arithmetic is the word's *)
RECURSIVE u64_digits(_, _, _)
u64_digits(val, p, i) ==
  IF i > Len(p)
  THEN [rc |-> 0, val |-> val, msg |-> NoErr]
  ELSE LET c == p[i]
           d == digit_of(c)
       IN IF d = -1
          THEN IF c \in {"_", " "}
               THEN u64_digits(val, p, i + 1)
               ELSE U64Fails("tr_from_base12_u64: invalid digit '" \o c \o "'")
          ELSE IF u64_overflows(val, d)
          THEN U64Fails("tr_from_base12_u64: overflow")
          ELSE u64_digits((val * 12 + d) % (UINT64_MAX + 1), p, i + 1)

(* tr_from_base12_u64(s, out), no pointer NULL: an optional sign, then the
   digit loop; neg is whether the sign was '-' *)
tr_from_base12_u64(s) ==
  LET signed == Len(s) > 0 /\ s[1] \in {"+", "-"}
      r == u64_digits(0, IF signed THEN Tail(s) ELSE s, 1)
  IN [rc |-> r.rc, val |-> r.val, msg |-> r.msg,
      neg |-> signed /\ s[1] = "-"]

(* *out = neg ? (uint64_t)(-(int64_t)val) : val, the negation modulo the
   word *)
u64_stored(val, neg) == IF neg THEN (UINT64_MAX + 1 - val) % (UINT64_MAX + 1)
                               ELSE val

(* the byte values, buffer sizes and chars the conversions are given *)
ByteVals == {0, 1, 2, 5, 255}
OutLens == {0, 1, 2, 5, 64}
TextChars == {"0", "1", "4", "9", "b", "_", " ", ".", "-", "x"}

(* the byte vectors of at most n bytes, the texts of at most n chars *)
ByteVectors(n) == UNION {[1..k -> ByteVals] : k \in 0..n}
Texts(n) == UNION {[1..k -> TextChars] : k \in 0..n}

(* thread t calls bytes_to_base12_scaled(bytes, len, scale, out, outlen) for
   the arguments it was given.  A text that with its NUL is longer than
   outlen is written past the end of out: the call returns as if out were
   large enough (intact), or the process dies *)
b12_encode(intact) ==
  /\ ~crashed
  /\ b12.at = "encode"
  /\ LET r == bytes_to_base12_scaled(b12.bytes, b12.scale, b12.outlen)
     IN /\ IF r.written > b12.outlen /\ ~intact
           THEN /\ crashed' = TRUE
                /\ ev' = Event("fault", NULL, 0, NULL)
                /\ UNCHANGED <<b12, lastError>>
           ELSE /\ b12' = [b12 EXCEPT !.at = "encoded", !.rc = r.rc,
                                      !.text = r.out]
                /\ lastError' = IF r.msg # NoErr
                                THEN tr_set_last_error_fmt(lastError, b12.t, r.msg)
                                ELSE lastError
                /\ ev' = Event("encode",
                               [bytes |-> b12.bytes, scale |-> b12.scale,
                                outlen |-> b12.outlen], r.rc, r.out)
                /\ UNCHANGED crashed
  /\ UNCHANGED <<chan, pc, arg, sentLog, recvLog, nOps, atClose, quarVars>>
  /\ UNCHANGED <<cap, wk, loc, g_callback_registry, cbRegs, nextCb, joined, hist>>
  /\ UNCHANGED sysVars

(* thread t calls base12_to_bytes_with_scale(s, &out_bytes, &out_len,
   &out_scale) for the text it was given, or for the text its encoder call
   produced; a failed call leaves the outputs alone *)
b12_decode ==
  /\ ~crashed
  /\ \/ b12.at = "decode"
     \/ b12.at = "encoded" /\ b12.rc = 0
  /\ LET r == base12_to_bytes_with_scale(b12.text)
     IN /\ b12' = [b12 EXCEPT
                     !.at = IF b12.at = "decode" THEN "decoded" ELSE "round_trip",
                     !.drc = r.rc,
                     !.out_bytes = IF r.rc = 0 THEN r.out_bytes ELSE @,
                     !.out_scale = IF r.rc = 0 THEN r.out_scale ELSE @]
        /\ lastError' = IF r.msg # NoErr
                        THEN tr_set_last_error_fmt(lastError, b12.t, r.msg)
                        ELSE lastError
        /\ ev' = Event("decode", b12.text, r.rc,
                       [out_bytes |-> r.out_bytes, out_scale |-> r.out_scale])
  /\ UNCHANGED <<chan, pc, arg, sentLog, recvLog, nOps, atClose, quarVars>>
  /\ UNCHANGED capVars
  /\ UNCHANGED sysVars

(* the byte vectors bytes_to_base12 is given: the short ones, and the four
   bytes FF FF FF FF *)
IntBytes == ByteVectors(MaxBytes) \cup {<<255, 255, 255, 255>>}

(* thread t calls bytes_to_base12(bytes, len, out, outlen) for the arguments
   it was given; the text is checked against outlen before it is copied *)
b12_encode_int ==
  /\ ~crashed
  /\ b12.at = "encode_int"
  /\ LET r == bytes_to_base12(b12.bytes, b12.outlen)
     IN /\ b12' = [b12 EXCEPT !.at = "encoded_int", !.rc = r.rc, !.text = r.out]
        /\ lastError' = IF r.msg # NoErr
                        THEN tr_set_last_error_fmt(lastError, b12.t, r.msg)
                        ELSE lastError
        /\ ev' = Event("encode_int",
                       [bytes |-> b12.bytes, outlen |-> b12.outlen], r.rc, r.out)
  /\ UNCHANGED <<chan, pc, arg, sentLog, recvLog, nOps, atClose, quarVars>>
  /\ UNCHANGED capVars
  /\ UNCHANGED sysVars

(* thread t calls tr_from_base12_u64(s, &out) for the text it was given; a
   failed call leaves *out alone.  For "-" and the magnitude of the smallest
   signed word the negation -(int64_t)val overflows, which is undefined: the
   word is stored unchanged, or the process dies (trapped) *)
b12_decode_u64(trapped) ==
  /\ ~crashed
  /\ b12.at = "decode"
  /\ LET r == tr_from_base12_u64(b12.text)
     IN IF r.rc = 0 /\ r.neg /\ r.val = (UINT64_MAX + 1) \div 2 /\ trapped
        THEN /\ crashed' = TRUE
             /\ ev' = Event("fault", NULL, 0, NULL)
             /\ UNCHANGED <<b12, lastError>>
        ELSE /\ b12' = [b12 EXCEPT
                          !.at = "decoded_u64",
                          !.drc = r.rc,
                          !.val = IF r.rc = 0 THEN u64_stored(r.val, r.neg) ELSE @]
             /\ lastError' = IF r.msg # NoErr
                             THEN tr_set_last_error_fmt(lastError, b12.t, r.msg)
                             ELSE lastError
             /\ ev' = Event("decode_u64", b12.text, r.rc,
                            IF r.rc = 0 THEN u64_stored(r.val, r.neg) ELSE NULL)
             /\ UNCHANGED crashed
  /\ UNCHANGED <<chan, pc, arg, sentLog, recvLog, nOps, atClose, quarVars>>
  /\ UNCHANGED <<cap, wk, loc, g_callback_registry, cbRegs, nextCb, joined, hist>>
  /\ UNCHANGED sysVars


(* --------------------------- specifications --------------------------- *)

(* no thread is inside a call, no message was set, nothing was sent *)
CallersInit ==
  /\ pc = [t \in Threads |-> "idle"]
  /\ arg = [t \in Threads |-> NoArg]
  /\ lastError = [t \in AllThreads |-> NoErr]
  /\ ev = Event("init", NULL, 0, NULL)
  /\ sentLog = <<>>
  /\ recvLog = <<>>
  /\ nOps = 0
  /\ atClose = [t \in Threads |-> "none"]

(* no call was made yet, nothing is allocated, no capsule exists *)
ThreadsInit ==
  /\ CallersInit
  /\ CapIdle
  /\ SysIdle
  /\ qAlive = TRUE
  /\ lockLog = <<>>
  /\ heap = {}
  /\ given = {}
  /\ owed = 0
  /\ badFree = FALSE
  /\ b12 = NoB12

(* after channel_create(capacity), capacity >= 1 *)
ChanInit ==
  /\ ThreadsInit
  /\ \E capacity \in 1..MaxCap : chan = channel_create(capacity)
  /\ q = quarantine_create(1)

(* after quarantine_create(initial_capacity) *)
QuarInit ==
  /\ ThreadsInit
  /\ chan = channel_create(1)
  /\ \E initial_capacity \in 1..MaxQCap : q = quarantine_create(initial_capacity)

(* every send passes a pointer to a message of its own *)
NewItem == nOps + 1

ChanNext ==
  \E t \in Threads :
    \/ \E blocking \in BOOLEAN, tmo \in Timeouts :
         channel_send(t, NewItem, blocking, tmo)
    \/ channel_send_resume(t)
    \/ channel_send_timeout(t)
    \/ \E blocking \in BOOLEAN, tmo \in Timeouts : channel_recv(t, blocking, tmo)
    \/ channel_recv_resume(t)
    \/ channel_recv_timeout(t)
    \/ channel_close(t)
    \/ timedwait_expires(t)
    \/ spurious_wakeup(t)

(* the channel used by NThreads threads *)
ChanSpec == ChanInit /\ [][ChanNext]_vars

(* a thread that left its wait is scheduled and gets the lock *)
ChanFairSpec ==
  /\ ChanSpec
  /\ \A t \in Threads : /\ WF_vars(channel_send_resume(t))
                         /\ WF_vars(channel_recv_resume(t))

(* the channel used with blocking calls only (blocking = 1, timeout_ms = 0)
   and never closed *)
BlockNext ==
  \E t \in Threads :
    \/ channel_send(t, NewItem, TRUE, 0)
    \/ channel_send_resume(t)
    \/ channel_recv(t, TRUE, 0)
    \/ channel_recv_resume(t)
    \/ spurious_wakeup(t)

BlockSpec == ChanInit /\ [][BlockNext]_vars

(* a thread that left its wait is scheduled and gets the lock *)
BlockFairSpec ==
  /\ BlockSpec
  /\ \A t \in Threads : /\ WF_vars(channel_send_resume(t))
                         /\ WF_vars(channel_recv_resume(t))

QuarNext ==
  \E t \in QThreads :
    \/ \E size \in Sizes, reallocOk \in BOOLEAN, p \in Ptrs \cup {NULL} :
         quarantine_alloc(t, size, reallocOk, p)
    \/ \E ptr \in Ptrs \cup {NULL} : quarantine_free(t, ptr)
    \/ quarantine_seal(t)
    \/ quarantine_destroy(t)

(* the quarantine used by NQThreads threads, each call atomic under q->lock *)
QuarSpec == QuarInit /\ [][QuarNext]_vars

(* after tr_capsule_create(name, entry, user_ctx) returned a capsule: the
   quarantine of 16 slots tracks the copy of the name, the inbox has 32
   slots, thread = 0, running = 0; no callback was registered yet *)
CapInit ==
  /\ CallersInit
  /\ CapIdle
  /\ SysIdle
  /\ chan = channel_create(InboxCapacity)
  /\ q = alloc_record(quarantine_create(CapQuarCapacity), NamePtr)
  /\ qAlive = TRUE
  /\ lockLog = Locked("q->lock", <<>>)
  /\ heap = {NamePtr}
  /\ given = {NamePtr}
  /\ owed = 1
  /\ badFree = FALSE
  /\ b12 = NoB12

(* the life of the capsule: its caller registers one observer, starts, sends,
   joins and destroys in any order; the workers run beside it *)
CapNext ==
  \/ \E t \in CapThreads :
       \/ \E createOk \in BOOLEAN : tr_capsule_start(t, createOk)
       \/ tr_capsule_join(t)
       \/ \E staleOk \in BOOLEAN : tr_capsule_join_returns(t, staleOk)
       \/ tr_capsule_destroy(t)
       \/ tr_capsule_destroy_returns(t)
       \/ tr_capsule_send(t, NewItem)
       \/ /\ nextCb = 0
          /\ tr_register_event_callback(t)
       \/ \E mallocOk \in BOOLEAN : register_creates_registry(t, mallocOk)
       \/ \E reallocOk \in BOOLEAN : register_appends(t, reallocOk)
  \/ \E w \in Workers :
       \/ worker_set_running(w)
       \/ \E mallocOk \in BOOLEAN : worker_emit(w, mallocOk)
       \/ worker_callback(w, FALSE)
       \/ worker_emit_done(w)
       \/ worker_entry_call(w)
       \/ worker_entry_return(w)
       \/ worker_drain(w)
       \/ worker_clear_running(w)
       \/ worker_fault(w)

(* one capsule, the thread that calls it, and the worker threads
   tr_capsule_start creates; the observers do not register others *)
CapSpec == CapInit /\ [][CapNext]_vars

(* one run of the worker: the capsule is started once, its caller registers
   one observer and sends messages to the inbox *)
RunNext ==
  \/ \E t \in CapThreads :
       \/ /\ \A w \in Workers : wk[w].at = Unborn
          /\ \E createOk \in BOOLEAN : tr_capsule_start(t, createOk)
       \/ tr_capsule_send(t, NewItem)
       \/ /\ nextCb = 0
          /\ tr_register_event_callback(t)
       \/ \E mallocOk \in BOOLEAN : register_creates_registry(t, mallocOk)
       \/ \E reallocOk \in BOOLEAN : register_appends(t, reallocOk)
  \/ \E w \in Workers :
       \/ worker_set_running(w)
       \/ \E mallocOk \in BOOLEAN : worker_emit(w, mallocOk)
       \/ worker_callback(w, FALSE)
       \/ worker_emit_done(w)
       \/ worker_entry_call(w)
       \/ worker_entry_return(w)
       \/ worker_drain(w)
       \/ worker_clear_running(w)

RunSpec == CapInit /\ [][RunNext]_vars

(* the registry in use: every thread registers callbacks, also from inside
   a callback, while the worker of a capsule started once emits its events *)
EmitNext ==
  \/ \E t \in CapThreads :
       /\ \A w \in Workers : wk[w].at = Unborn
       /\ \E createOk \in BOOLEAN : tr_capsule_start(t, createOk)
  \/ \E t \in Threads :
       \/ tr_register_event_callback(t)
       \/ \E mallocOk \in BOOLEAN : register_creates_registry(t, mallocOk)
       \/ \E reallocOk \in BOOLEAN : register_appends(t, reallocOk)
  \/ \E w \in Workers :
       \/ worker_set_running(w)
       \/ \E mallocOk \in BOOLEAN : worker_emit(w, mallocOk)
       \/ \E reenter \in BOOLEAN : worker_callback(w, reenter)
       \/ worker_callback_registers(w)
       \/ worker_emit_done(w)
       \/ worker_entry_call(w)
       \/ worker_entry_return(w)
       \/ worker_drain(w)
       \/ worker_clear_running(w)

EmitSpec == CapInit /\ [][EmitNext]_vars

(* the capsule whose entry procedure loops on a blocking recv of the inbox:
   it is started once, its caller registers one observer, sends messages and
   destroys it *)
LoopNext ==
  \/ \E t \in CapThreads :
       \/ /\ \A w \in Workers : wk[w].at = Unborn
          /\ \E createOk \in BOOLEAN : tr_capsule_start(t, createOk)
       \/ tr_capsule_send(t, NewItem)
       \/ tr_capsule_destroy(t)
       \/ tr_capsule_destroy_returns(t)
       \/ /\ nextCb = 0
          /\ tr_register_event_callback(t)
       \/ \E mallocOk \in BOOLEAN : register_creates_registry(t, mallocOk)
       \/ \E reallocOk \in BOOLEAN : register_appends(t, reallocOk)
  \/ \E w \in Workers :
       \/ worker_set_running(w)
       \/ \E mallocOk \in BOOLEAN : worker_emit(w, mallocOk)
       \/ worker_callback(w, FALSE)
       \/ worker_emit_done(w)
       \/ worker_entry_call(w)
       \/ worker_entry_recv(w)
       \/ worker_entry_spurious(w)
       \/ worker_drain(w)
       \/ worker_clear_running(w)
       \/ worker_fault(w)

LoopSpec == CapInit /\ [][LoopNext]_vars

(* a step of worker w that the scheduler can give it: any statement but a
   wait *)
WorkerStep(w) ==
  \/ worker_set_running(w)
  \/ \E mallocOk \in BOOLEAN : worker_emit(w, mallocOk)
  \/ worker_callback(w, FALSE)
  \/ worker_emit_done(w)
  \/ worker_entry_call(w)
  \/ worker_entry_recv(w)
  \/ worker_drain(w)
  \/ worker_clear_running(w)

(* every thread that can run is scheduled: a worker goes on with its next
   statement, a join whose thread has ended returns *)
LoopFairSpec ==
  /\ LoopSpec
  /\ \A w \in Workers : WF_vars(WorkerStep(w))
  /\ \A t \in CapThreads : WF_vars(tr_capsule_destroy_returns(t))

(* before the first registry call *)
SysInit ==
  /\ ThreadsInit
  /\ chan = channel_create(1)
  /\ q = quarantine_create(1)

SysNext ==
  \E t \in SysThreads :
    \/ /\ nSysOps < MaxSysOps
       /\ \E name \in SysNames, flags \in SysFlags, auth_token \in AuthTokens :
            tr_register_syscall_ex(t, name, flags, auth_token)
    \/ \E mallocOk \in BOOLEAN : register_creates_sysregistry(t, mallocOk)
    \/ \E reallocOk \in BOOLEAN, mallocOk \in BOOLEAN :
         register_syscall_appends(t, reallocOk, mallocOk)
    \/ /\ nSysOps < MaxSysOps
       /\ \E name \in SysNames : tr_unregister_syscall(t, name)
    \/ /\ nSysOps < MaxSysOps
       /\ \E name \in SysNames, auth_token \in AuthTokens :
            tr_invoke_syscall_ex(t, name, auth_token)
    \/ invoke_calls_handler(t)
    \/ \E rc \in HandlerRcs, setsError \in BOOLEAN :
         invoke_handler_returns(t, rc, setsError)

(* the syscall registry used by NSysThreads threads *)
SysSpec == SysInit /\ [][SysNext]_vars

(* the registry after tr_register_syscall_ex was called for each of es in
   turn, by one thread *)
RECURSIVE Registered(_)
Registered(es) ==
  IF es = <<>>
  THEN syscall_registry_create
  ELSE sys_append(Registered(SubSeq(es, 1, Len(es) - 1)), es[Len(es)])

(* the auth_token passed at a registration: none, or the longest token *)
EntryTokens == {NullTok, [i \in 1..MaxTokLen |-> "k"]}

(* the entries of n registrations: any names, a token or none, the i-th
   call passing its own handler i, every other one asking for the audit *)
RegisteredEntries(n) ==
  {[i \in 1..n |-> [name |-> nm[i], handler |-> i, flags |-> i % 2,
                    auth_token |-> tk[i]]] :
     nm \in [1..n -> SysNames], tk \in [1..n -> EntryTokens]}

(* up to MaxEntries registrations were made and returned 0, each leaving its
   "syscall_registered" record; no call is under way *)
LookupInit ==
  /\ CallersInit
  /\ CapIdle
  /\ qAlive = TRUE
  /\ lockLog = <<>>
  /\ heap = {}
  /\ given = {}
  /\ owed = 0
  /\ badFree = FALSE
  /\ chan = channel_create(1)
  /\ q = quarantine_create(1)
  /\ \E n \in 0..MaxEntries : \E es \in RegisteredEntries(n) :
       /\ g_syscall_registry = 1
       /\ sysRegs = <<Registered(es)>>
       /\ auditLog = [i \in 1..n |->
                        [kind |-> "syscall_registered", name |-> es[i].name]]
       /\ nextH = n
  /\ sloc = [t \in Threads |-> NoSysLoc]
  /\ nSysOps = 0
  /\ b12 = NoB12

LookupNext ==
  \E t \in LookThreads :
    \/ /\ nSysOps < MaxLookOps
       /\ \E name \in SysNames : tr_unregister_syscall(t, name)
    \/ /\ nSysOps < MaxLookOps
       /\ \E name \in SysNames, auth_token \in AuthTokens :
            tr_invoke_syscall_ex(t, name, auth_token)
    \/ invoke_calls_handler(t)
    \/ \E rc \in HandlerRcs, setsError \in BOOLEAN :
         invoke_handler_returns(t, rc, setsError)

(* lookups and removals in a registry that holds entries already *)
LookupSpec == LookupInit /\ [][LookupNext]_vars

(* a thread is about to convert a byte vector with a scale into a buffer of
   outlen bytes, or a text into bytes; nothing else was called *)
B12Init ==
  /\ CallersInit
  /\ CapIdle
  /\ SysIdle
  /\ qAlive = TRUE
  /\ lockLog = <<>>
  /\ heap = {}
  /\ given = {}
  /\ owed = 0
  /\ badFree = FALSE
  /\ chan = channel_create(1)
  /\ q = quarantine_create(1)
  /\ \E t \in B12Threads :
       \/ \E bytes \in ByteVectors(MaxBytes), scale \in (-1)..MaxScale,
             outlen \in OutLens :
            b12 = [NoB12 EXCEPT !.at = "encode", !.t = t, !.bytes = bytes,
                                !.scale = scale, !.outlen = outlen]
       \/ \E s \in Texts(MaxTextLen) :
            b12 = [NoB12 EXCEPT !.at = "decode", !.t = t, !.text = s]

B12Next ==
  \/ \E intact \in BOOLEAN : b12_encode(intact)
  \/ b12_decode

(* one conversion, or an encoding and the decoding of its text *)
B12Spec == B12Init /\ [][B12Next]_vars

(* the state around a conversion: nothing else of the runtime is in use *)
ConvIdle ==
  /\ CallersInit
  /\ CapIdle
  /\ SysIdle
  /\ qAlive = TRUE
  /\ lockLog = <<>>
  /\ heap = {}
  /\ given = {}
  /\ owed = 0
  /\ badFree = FALSE
  /\ chan = channel_create(1)
  /\ q = quarantine_create(1)

(* a thread is about to convert a byte vector into a buffer of outlen bytes *)
IntInit ==
  /\ ConvIdle
  /\ \E t \in B12Threads, bytes \in IntBytes, outlen \in OutLens :
       b12 = [NoB12 EXCEPT !.at = "encode_int", !.t = t, !.bytes = bytes,
                           !.outlen = outlen]

IntNext == b12_encode_int

(* one call of bytes_to_base12 *)
IntSpec == IntInit /\ [][IntNext]_vars

(* the chars of the texts with separators: digits in both cases, '_' and
   ' ', the radix point, a sign, and a char that is none of these *)
SepChars == {"1", "8", "a", "A", "b", "B", "_", " ", ".", "-", "x"}

(* a thread is about to decode a text with one of the two decoders *)
SepInit ==
  /\ ConvIdle
  /\ \E t \in B12Threads, k \in 0..MaxSepLen : \E s \in [1..k -> SepChars] :
       b12 = [NoB12 EXCEPT !.at = "decode", !.t = t, !.text = s]

SepNext ==
  \/ b12_decode
  \/ \E trapped \in BOOLEAN : b12_decode_u64(trapped)

(* one call of base12_to_bytes_with_scale or of tr_from_base12_u64 *)
SepSpec == SepInit /\ [][SepNext]_vars

(* a thread is about to decode a string of digits into a word *)
U64Init ==
  /\ ConvIdle
  /\ \E t \in B12Threads, k \in 0..MaxDigits :
       \E s \in [1..k -> {DG_DIGITS[d] : d \in 1..12}] :
         b12 = [NoB12 EXCEPT !.at = "decode", !.t = t, !.text = s]

U64Next == \E trapped \in BOOLEAN : b12_decode_u64(trapped)

(* one call of tr_from_base12_u64 on an unsigned digit string *)
U64Spec == U64Init /\ [][U64Next]_vars


(* ------------------------- properties: Channel ------------------------ *)

(* the items in the ring, oldest first: count slots starting at head *)
Buffered == [n \in 1..chan.count |->
               chan.buffer[(chan.head + n - 1) % chan.capacity]]

(* C1: channel FIFO.  The item returned by the n-th successful recv is the
   item passed to the n-th successful send, sends and recvs ordered by the
   moment they hold the lock; no item is lost, duplicated or reordered: what
   was sent and not yet received is what the ring holds, in send order. *)
C1_ChannelFifo ==
  /\ Len(recvLog) <= Len(sentLog)
  /\ \A n \in 1..Len(recvLog) : recvLog[n] = sentLog[n]
  /\ Buffered = SubSeq(sentLog, Len(recvLog) + 1, Len(sentLog))

(* two items were received, in the order sent, and head has wrapped to 0 *)
C1_Witness ==
  /\ Len(recvLog) >= 2
  /\ chan.head = 0

(* C2: in every reachable state 0 <= count <= capacity. *)
C2_CountInRange ==
  /\ 0 <= chan.count
  /\ chan.count <= chan.capacity

(* the channel is full again while a sender that was woken has yet to re-check *)
C2_Witness ==
  /\ chan.count = chan.capacity
  /\ \E t \in Threads : pc[t] = "send_woken"

(* C3: the closed flag is never cleared, and once it is set no send inserts
   an item: every step of a channel_send that holds the lock after the close,
   a sender woken from its wait included, leaves buffer, tail and count alone
   and does not return 0. *)
C3_ClosedMonotoneNoInsert ==
  [][/\ chan.closed => chan'.closed
     /\ chan.closed =>
          /\ sentLog' = sentLog
          /\ chan'.tail = chan.tail
          /\ chan'.count <= chan.count
     /\ (chan.closed /\ ev'.op \in {"send", "send_blocks"}) =>
          /\ ev'.op = "send"
          /\ ev'.ret \in {-1, -3}
          /\ chan'.buffer = chan.buffer
          /\ chan'.tail = chan.tail
          /\ chan'.count = chan.count]_vars

(* a sender that waited on not-full came back after the close and got Closed,
   and a receiver has since made room *)
C3_Witness ==
  /\ chan.closed
  /\ chan.count < chan.capacity
  /\ \E t \in Threads : /\ lastError[t] = "channel_send: closed during wait"
                        /\ pc[t] = "idle"

(* C4: closed-drain.  A recv that looks at a closed channel (called after the
   close, or back from its wait) returns 1 with the oldest item while
   count > 0 and returns 0 when the channel is empty; it neither waits nor
   returns WouldBlock.  No recv returns 0 on an open channel or while items
   remain.  (A timed recv whose wait had already run out returns -3 without
   looking at the channel.) *)
C4_ClosedDrain ==
  [][/\ (ev'.op = "recv" /\ ev'.ret = 0) => (chan.closed /\ chan.count = 0)
     /\ (chan.closed /\ ev'.op \in {"recv", "recv_blocks"} /\ ev'.ret # -3) =>
          /\ ev'.op = "recv"
          /\ IF chan.count > 0
             THEN /\ ev'.ret = 1
                  /\ ev'.out = sentLog[Len(recvLog) + 1]
                  /\ recvLog' = Append(recvLog, ev'.out)
                  /\ chan'.count = chan.count - 1
             ELSE /\ ev'.ret = 0
                  /\ chan' = chan]_vars

(* after the close a recv took the last item: the next one finds Drained *)
C4_Witness ==
  /\ chan.closed
  /\ ev.op = "recv"
  /\ ev.ret = 1
  /\ chan.count = 0
  /\ Len(recvLog) >= 1

(* C5: close wakes every waiter.  No thread stays in a wait on a closed
   channel; a thread that channel_close found waiting on not-full returns -1,
   one it found waiting on not-empty returns 1 or, the channel being empty,
   0; under fair scheduling each of them returns. *)
C5_CloseWakesAll ==
  /\ [](chan.closed => \A t \in Threads : pc[t] \notin {"send_wait", "recv_wait"})
  /\ [][\A t \in Threads :
          /\ (atClose[t] = "send" /\ pc[t] = "send_woken" /\ pc'[t] # pc[t]) =>
               /\ pc'[t] = "idle"
               /\ ev'.op = "send"
               /\ ev'.ret = -1
          /\ (atClose[t] = "recv" /\ pc[t] = "recv_woken" /\ pc'[t] # pc[t]) =>
               /\ pc'[t] = "idle"
               /\ ev'.op = "recv"
               /\ ev'.ret = (IF chan.count = 0 THEN 0 ELSE 1)]_vars
  /\ \A t \in Threads : (atClose[t] # "none") ~> (pc[t] = "idle")

(* a sender that the close found waiting has returned Closed *)
C5_Witness ==
  /\ chan.closed
  /\ ev.op = "send"
  /\ ev.ret = -1
  /\ \E t \in Threads : /\ atClose[t] = "send"
                        /\ pc[t] = "idle"
                        /\ lastError[t] = "channel_send: closed during wait"
  /\ \A t \in Threads : pc[t] = "idle"

(* the channel fields a failed call must leave alone *)
ChanState == <<chan.buffer, chan.head, chan.tail, chan.count, chan.closed>>

(* C6: a call that does not succeed leaves the channel as it was: a send
   returning -1, -2 or -3 and a recv returning 0, -2 or -3 change neither the
   buffer nor head, tail, count or closed; -2 is returned only to a full
   (send) or empty (recv) open channel; a non-blocking call never waits. *)
C6_FailureLeavesChannel ==
  /\ [](\A t \in Threads :
          pc[t] \in {"send_wait", "send_woken", "send_expired",
                     "recv_wait", "recv_woken", "recv_expired"}
            => arg[t].blocking)
  /\ [][/\ (ev'.op = "send" /\ ev'.ret \in {-1, -2, -3}) => ChanState' = ChanState
        /\ (ev'.op = "recv" /\ ev'.ret \in {0, -2, -3}) => ChanState' = ChanState
        /\ (ev'.op = "send" /\ ev'.ret = -2) =>
             (~chan.closed /\ chan.count = chan.capacity)
        /\ (ev'.op = "recv" /\ ev'.ret = -2) =>
             (~chan.closed /\ chan.count = 0)]_vars

(* a timed send gave up on a full channel that holds what it held before *)
C6_Witness ==
  /\ ev.op = "send"
  /\ ev.ret = -3
  /\ chan.count = chan.capacity
  /\ \E t \in Threads : lastError[t] = "channel_send: timeout"

(* C7: whenever no thread is inside a channel call, count is the number of
   sends that returned 0 minus the number of recvs that returned 1. *)
C7_QuiescentCount ==
  (\A t \in Threads : pc[t] = "idle") =>
     chan.count = Len(sentLog) - Len(recvLog)

(* quiescent after sends, a recv and a close, with items left *)
C7_Witness ==
  /\ \A t \in Threads : pc[t] = "idle"
  /\ Len(recvLog) >= 1
  /\ chan.count >= 1
  /\ chan.closed

(* ----------------------- properties: Quarantine ------------------------ *)

(* C8: the seal is monotone.  sealed is never cleared; a quarantine_alloc
   that takes the lock of a sealed quarantine returns NULL, sets the calling
   thread's last-error string and leaves count, capacity and the tracked
   allocations (and the heap) as they were. *)
C8_SealMonotone ==
  [][/\ q.sealed => q'.sealed
     /\ (q.sealed /\ ev'.op = "alloc") =>
          /\ ev'.ret = NULL
          /\ q' = q
          /\ heap' = heap
          /\ owed' = owed
          /\ ev'.in # 0 =>
               \E t \in Threads :
                 lastError' = [lastError EXCEPT
                                 ![t] = "quarantine_alloc: quarantined sealed"]]_vars

(* an alloc of a non-zero size was refused by a sealed quarantine that tracks
   allocations *)
C8_Witness ==
  /\ q.sealed
  /\ qAlive
  /\ q.count >= 1
  /\ ev.op = "alloc"
  /\ ev.in # 0
  /\ \E t \in Threads : lastError[t] = "quarantine_alloc: quarantined sealed"

(* C9: every allocation quarantine_alloc returned is released exactly once,
   by the quarantine_free that found it or by quarantine_destroy: free() is
   never called on an address that is not allocated, and after the destroy
   nothing is left allocated. *)
C9_ReleasedExactlyOnce ==
  /\ ~badFree
  /\ owed = Cardinality(heap)
  /\ ~qAlive => (heap = {} /\ owed = 0)

(* destroyed: destroy released at least two allocations, quarantine_free had
   released another *)
C9_Witness ==
  /\ ~qAlive
  /\ ev.op = "destroy"
  /\ ev.out >= 2
  /\ Cardinality(given) > ev.out

(* C10: quarantine_free of a pointer the quarantine does not track returns
   -1 (NotFound), releases nothing and leaves count and the tracked set as
   they were; a hit returns 0, releases that pointer, removes it alone from
   the tracked set and decrements count by one.  No call other than free and
   destroy removes a tracked pointer. *)
C10_FreeMissAndHit ==
  [][/\ ev'.op = "free" =>
          IF ev'.in \in Tracked(q)
          THEN /\ ev'.ret = 0
               /\ Tracked(q') = Tracked(q) \ {ev'.in}
               /\ q'.count = q.count - 1
               /\ Cardinality(Tracked(q')) = q'.count
               /\ heap' = heap \ {ev'.in}
          ELSE /\ ev'.ret = -1
               /\ q' = q
               /\ heap' = heap
               /\ ev'.in # NULL =>
                    \E t \in Threads :
                      lastError' = [lastError EXCEPT
                                      ![t] = "quarantine_free: pointer not found"]
     /\ ev'.op \notin {"free", "destroy"} => Tracked(q) \subseteq Tracked(q')]_vars

(* a pointer the quarantine had returned and released was freed a second
   time and not found, while two others stay tracked *)
C10_Witness ==
  /\ ev.op = "free"
  /\ ev.ret = -1
  /\ ev.in \in given
  /\ ev.in \notin Tracked(q)
  /\ q.count >= 2

(* C11: a quarantine_alloc that fails for any reason (size 0, sealed, the
   vector could not grow, or malloc failed after the vector was grown)
   leaves the bookkeeping as it was: count, capacity and the tracked set
   are the same as before the call. *)
C11_FailedAllocKeepsBookkeeping ==
  [][(ev'.op = "alloc" /\ ev'.ret = NULL) =>
       /\ q'.count = q.count
       /\ q'.capacity = q.capacity
       /\ Tracked(q') = Tracked(q)]_vars

(* ------------------------- properties: Capsule ------------------------ *)

(* worker w was created by tr_capsule_start *)
Started(w) == wk[w].at # Unborn

(* the events callback cb has been given by the emits of worker w, in order *)
Received(w, cb) ==
  LET x == SelectSeq(hist.got[w], LAMBDA e : e.cb = cb)
  IN [i \in 1..Len(x) |-> x[i].evt]

(* the callbacks in a list of registrations *)
Range(f) == {f[i] : i \in DOMAIN f}

(* C12: the running flag never cycles.  Over any sequence and interleaving
   of start, join and worker execution on one capsule, running goes from
   false to true at most once and from true to false at most once; once a
   worker has cleared it, it is not set again. *)
C12_RunningNeverCycles ==
  /\ hist.ups <= 1
  /\ hist.downs <= 1
  /\ (hist.downs >= 1 /\ ~cap.freed) => ~cap.running

(* C13: join waits for the worker.  When tr_capsule_join returns 0 after a
   successful tr_capsule_start, every worker that was started has exited,
   and every observer registered before the start has received exactly
   capsule_start followed by capsule_stop from it. *)
C13_JoinWaitsForWorker ==
  [][(ev'.op = "join" /\ ev'.ret = 0) =>
       \A w \in Workers :
         Started(w) =>
           /\ wk[w].at = Exited
           /\ \A cb \in Range(hist.obs[w]) :
                Received(w, cb) = <<"capsule_start", "capsule_stop">>]_vars

(* C14: capsule quiescence.  After tr_capsule_destroy has returned, no
   capsule_start or capsule_stop event of the capsule is delivered to any
   observer, whatever the interleaving of destroy and the worker. *)
C14_QuietAfterDestroy ==
  \A w \in Workers : \A i \in DOMAIN hist.got[w] : ~hist.got[w][i].late

(* C15: destruction is sequenced and forces a join.  When tr_capsule_destroy
   has destroyed the inbox and the quarantine and freed the capsule, every
   worker that was started has exited, and no worker reads or writes the
   capsule or its inbox afterwards. *)
C15_DestroyJoinsFirst ==
  /\ cap.freed => \A w \in Workers : wk[w].at \in {Unborn, Exited}
  /\ ~hist.uaf

(* a is an initial part of b *)
IsPrefix(a, b) == Len(a) <= Len(b) /\ a = SubSeq(b, 1, Len(a))

(* what a complete worker run does when n messages are in the inbox at the
   drain *)
WorkerRun(n) ==
  <<"set_running", "capsule_start", "entry">>
  \o [i \in 1..n |-> "recv_item"]
  \o <<"recv_none", "clear_running", "capsule_stop">>

(* C16: worker wrapper ordering.  In each worker run the steps occur in
   this order, each once: running set true; capsule_start emitted; the user
   entry called; the inbox drained by non-blocking recvs until one returns
   no item; running set false; capsule_stop emitted.  What a worker has done
   so far is an initial part of that sequence, and all of it once the
   worker has exited; an observer is given an event only during the emit
   of that event, capsule_start before any capsule_stop, and capsule_stop
   only after running was cleared. *)
C16_WorkerOrder ==
  \A w \in Workers :
    /\ \E n \in 0..MaxMsgs : IsPrefix(hist.trace[w], WorkerRun(n))
    /\ wk[w].at = Exited => \E n \in 0..MaxMsgs : hist.trace[w] = WorkerRun(n)
    /\ wk[w].sub = "cbs" => hist.trace[w][Len(hist.trace[w])] = Stmt(w)
    /\ \A i \in DOMAIN hist.got[w] :
         \/ /\ hist.got[w][i].evt = "capsule_start"
            /\ \A j \in 1..(i - 1) : hist.got[w][j].evt = "capsule_start"
         \/ /\ hist.got[w][i].evt = "capsule_stop"
            /\ \E j \in DOMAIN hist.trace[w] :
                 hist.trace[w][j] = "clear_running"

(* a worker has exited after draining a message, and the observer got
   capsule_start and capsule_stop *)
C16_Witness ==
  \E w \in Workers :
    /\ wk[w].at = Exited
    /\ hist.trace[w] = WorkerRun(1)
    /\ \E cb \in Range(hist.registered) :
         Received(w, cb) = <<"capsule_start", "capsule_stop">>

(* the callbacks an emit of worker w is invoking or has invoked for evt *)
Invoked(w, evt) ==
  LET x == SelectSeq(hist.got[w], LAMBDA e : e.evt = evt)
  IN [i \in 1..Len(x) |-> x[i].cb]

(* C17: each emit invokes exactly the callbacks that were registered when it
   took its snapshot, each once, in registration order; a callback whose
   registration returned before the snapshot is in it (so every later emit
   invokes it) and one registered afterwards is not; registered callbacks
   are never removed or reordered. *)
C17_EmitSnapshotOrder ==
  [][\A w \in Workers :
       /\ (wk[w].sub = "none" /\ wk'[w].sub = "cbs") =>
            wk'[w].snap = hist.registered
       /\ wk[w].sub = "cbs" =>
            Invoked(w, Stmt(w)) = SubSeq(wk[w].snap, 1, wk[w].idx - 1)
       /\ IsPrefix(hist.registered, hist'.registered)]_vars

(* C18: the registry lock is not held while a callback runs.  A worker that
   is between the callbacks of an emit, or inside a callback that registers
   another callback, does not hold the lock of the registry, and whenever a
   registration has come to the lock, from inside a callback or on another
   thread, the lock is free: it is taken at once and the call returns. *)
C18_NoLockDuringCallbacks ==
  /\ \A w \in Workers :
       wk[w].sub \in {"cbs", "cb_lock"} => cbRegs[wk[w].r].lock # Wid(w)
  /\ \A w \in Workers :
       wk[w].sub = "cb_lock" => cbRegs[g_callback_registry].lock = NoThread
  /\ \A t \in Threads :
       pc[t] = "reg_lock" => cbRegs[g_callback_registry].lock = NoThread

(* an emit that copied one callback is still invoking while the registry
   already holds a second one, registered during the emit *)
C18_Witness ==
  \E w \in Workers :
    /\ wk[w].sub = "cbs"
    /\ Len(wk[w].snap) = 1
    /\ Len(cbRegs[wk[w].r].callbacks) = 2

(* ---------------------------- properties: locks ----------------------- *)

(* C19: no lock nesting.  On every path of a call, the error paths
   included (allocation failure, sealed quarantine), no thread takes one of
   the runtime's mutexes while it holds another one. *)
C19_NoLockNesting ==
  \A i \in DOMAIN lockLog :
    lockLog[i].op = "lock" => HeldBefore(lockLog, i) = {}

(* ---------------------- properties: syscall registry ------------------ *)

(* C20: syscall authentication.  When the entry found for the name was
   registered with a token, an invoke whose token is NULL or is not the same
   text returns -4 and goes on to no handler; with the same text, and for an
   entry registered without a token with any token or none, the invoke goes
   on to that entry's handler.  A handler is only ever called by a thread
   whose token passed that test. *)
C20_SyscallAuth ==
  [][/\ (ev'.op \in {"invoke", "invoke_dispatch"}
         /\ g_syscall_registry # NULL
         /\ sys_find(sysRegs[g_syscall_registry], ev'.in.name) # 0) =>
          LET r == sysRegs[g_syscall_registry]
              e == r.entries[sys_find(r, ev'.in.name)]
              t == ev'.in.t
          IN IF e.auth_token # NullTok /\ ev'.in.token # e.auth_token
             THEN /\ ev'.op = "invoke"
                  /\ ev'.ret = -4
                  /\ pc'[t] = "idle"
             ELSE /\ ev'.op = "invoke_dispatch"
                  /\ pc'[t] = "invoke_call"
                  /\ sloc'[t].h = e.handler
     /\ ev'.op = "handler" =>
          LET t == ev'.in.t
          IN /\ pc[t] = "invoke_call"
             /\ ev'.out = sloc[t].h
             /\ sloc[t].etoken = NullTok \/ sloc[t].token = sloc[t].etoken]_vars

(* an invoke that presented a token was refused with -4: the entry's token
   is another text *)
C20_Witness ==
  /\ ev.op = "invoke"
  /\ ev.ret = -4
  /\ ev.in.token # NullTok
  /\ \E t \in Threads :
       lastError[t] = "tr_invoke_syscall_ex: auth failed for " \o ev.in.name

(* C21: audit records of an invoke.  A refusal (-4) appends the one record
   syscall_invoke_failed_auth; the lookup of an authorized call appends
   nothing; for an entry with the audit bit the call of the handler appends
   syscall_invoke before the handler runs and its return appends
   syscall_invoke_result with the handler's return code; for an entry
   without the bit neither step appends anything. *)
C21_AuditSequence ==
  [][/\ (ev'.op = "invoke" /\ ev'.ret = -4) =>
          auditLog' = Append(auditLog, [kind |-> "syscall_invoke_failed_auth",
                                        name |-> ev'.in.name])
     /\ ev'.op = "invoke_dispatch" => auditLog' = auditLog
     /\ ev'.op = "handler" =>
          LET t == ev'.in.t
          IN /\ pc'[t] = "in_handler"
             /\ auditLog' =
                  IF sloc[t].flags % 2 = 1
                  THEN Append(auditLog, [kind |-> "syscall_invoke",
                                         name |-> ev'.in.name])
                  ELSE auditLog
     /\ ev'.op = "invoke_return" =>
          LET t == ev'.in.t
          IN /\ pc[t] = "in_handler"
             /\ auditLog' =
                  IF sloc[t].flags % 2 = 1
                  THEN Append(auditLog,
                              [kind |-> "syscall_invoke_result",
                               name |-> ev'.in.name \o " rc=" \o
                                        ToString(ev'.ret)])
                  ELSE auditLog]_vars

(* an audited invocation whose handler failed has returned: the log ends
   with its syscall_invoke and its syscall_invoke_result rc=7 *)
C21_Witness ==
  /\ ev.op = "invoke_return"
  /\ ev.ret = 7
  /\ Len(auditLog) >= 2
  /\ auditLog[Len(auditLog) - 1] =
       [kind |-> "syscall_invoke", name |-> ev.in.name]
  /\ auditLog[Len(auditLog)] =
       [kind |-> "syscall_invoke_result", name |-> ev.in.name \o " rc=7"]

(* C22: an invoke of a name that has no entry, the registry not yet created
   or not holding the name, returns -2 (NotFound) and goes on to no
   handler. *)
C22_NotFoundReturnsMinus2 ==
  [][(/\ ev'.op \in {"invoke", "invoke_dispatch"}
      /\ \/ g_syscall_registry = NULL
         \/ sys_find(sysRegs[g_syscall_registry], ev'.in.name) = 0) =>
       /\ ev'.op = "invoke"
       /\ ev'.ret = -2
       /\ pc'[ev'.in.t] = "idle"]_vars

(* the positions of the entries of registry r that carry the name *)
SameNamed(r, name) == {i \in 1..Len(r.entries) : r.entries[i].name = name}

(* the least of a non-empty set of positions *)
Lowest(S) == CHOOSE i \in S : \A j \in S : i <= j

(* C23: first match wins.  When one or more entries carry the invoked name,
   the entry at the lowest position among them alone decides: its token
   is the one the caller's is tested against and its handler the one
   dispatched to, whatever the later entries of that name hold. *)
C23_FirstMatchWins ==
  [][(/\ ev'.op \in {"invoke", "invoke_dispatch"}
      /\ g_syscall_registry # NULL
      /\ SameNamed(sysRegs[g_syscall_registry], ev'.in.name) # {}) =>
       LET r == sysRegs[g_syscall_registry]
           e == r.entries[Lowest(SameNamed(r, ev'.in.name))]
       IN IF e.auth_token # NullTok /\ ev'.in.token # e.auth_token
          THEN ev'.op = "invoke" /\ ev'.ret = -4
          ELSE /\ ev'.op = "invoke_dispatch"
               /\ ev'.out = e.handler
               /\ sloc'[ev'.in.t].h = e.handler
               /\ sloc'[ev'.in.t].flags = e.flags]_vars

(* a caller was refused although a later entry of the same name holds
   exactly the token it presented *)
C23_Witness ==
  /\ ev.op = "invoke"
  /\ ev.ret = -4
  /\ g_syscall_registry # NULL
  /\ LET r == sysRegs[g_syscall_registry]
         S == SameNamed(r, ev.in.name)
     IN /\ Cardinality(S) >= 2
        /\ \E i \in S : /\ i > Lowest(S)
                         /\ r.entries[i].auth_token = ev.in.token

(* C24: tr_unregister_syscall(name).  With no entry of that name the call
   returns -1 and the registry is as before.  Otherwise it returns 0, the
   lowest entry of that name is gone, the last entry stands in its slot,
   count is one less, every other entry is in its slot unchanged, and each
   name that another entry carries is still found. *)
C24_UnregisterFrame ==
  [][ev'.op = "unregister" =>
       IF g_syscall_registry = NULL
       THEN ev'.ret = -1 /\ sysRegs' = sysRegs
       ELSE LET g == g_syscall_registry
                r == sysRegs[g]
                S == SameNamed(r, ev'.in.name)
                n == Len(r.entries)
            IN IF S = {}
               THEN ev'.ret = -1 /\ sysRegs' = sysRegs
               ELSE /\ ev'.ret = 0
                    /\ Len(sysRegs'[g].entries) = n - 1
                    /\ sysRegs'[g].capacity = r.capacity
                    /\ \A j \in 1..(n - 1) :
                         sysRegs'[g].entries[j] =
                           IF j = Lowest(S) THEN r.entries[n]
                                            ELSE r.entries[j]
                    /\ \A j \in (1..n) \ {Lowest(S)} :
                         sys_find(sysRegs'[g], r.entries[j].name) # 0
                    /\ \A h \in 1..Len(sysRegs) :
                         h # g => sysRegs'[h] = sysRegs[h]]_vars

(* the first of three entries was unregistered: the third stands in its
   slot, before the second *)
C24_Witness ==
  /\ ev.op = "unregister"
  /\ ev.ret = 0
  /\ ev.out = 1
  /\ g_syscall_registry # NULL
  /\ LET r == sysRegs[g_syscall_registry]
     IN /\ Len(r.entries) = 2
        /\ r.entries[1].handler = 3
        /\ r.entries[2].handler = 2

(* the audit log holds a record of that kind for the name *)
Logged(kind, name) ==
  \E i \in DOMAIN auditLog : auditLog[i] = [kind |-> kind, name |-> name]

(* C25: lookup reflects all completed registrations.  Once a registration
   of a name has returned 0 (its syscall_registered record is written) and
   no unregister of that name has succeeded, an invoke of the name finds an
   entry: it does not return -2 or -3. *)
C25_LookupReflectsRegistrations ==
  [][(/\ ev'.op \in {"invoke", "invoke_dispatch"}
      /\ Logged("syscall_registered", ev'.in.name)
      /\ ~Logged("syscall_unregistered", ev'.in.name)) =>
       ~(ev'.op = "invoke" /\ ev'.ret \in {-2, -3})]_vars

(* C26: a handler that returns non-zero without setting the caller's
   last-error slot leaves the invoke to synthesize the message: when the
   invoke returns, the slot holds "syscall handler <name> returned <rc>",
   whatever it held before the invocation. *)
C26_SynthesizedError ==
  [][(/\ ev'.op = "invoke_return"
      /\ ev'.ret # 0
      /\ ~ev'.out.setsError) =>
       lastError'[ev'.in.t] =
         "syscall handler " \o ev'.in.name \o " returned " \o
         ToString(ev'.ret)]_vars

(* ------------------- properties: base-12 conversions ------------------ *)

(* the number a big-endian byte vector stands for *)
RECURSIVE BytesValue(_)
BytesValue(b) ==
  IF b = <<>> THEN 0
  ELSE BytesValue(SubSeq(b, 1, Len(b) - 1)) * 256 + b[Len(b)]

(* a byte vector without its leading zero bytes, one byte at least kept *)
RECURSIVE Trimmed(_)
Trimmed(b) == IF Len(b) > 1 /\ b[1] = 0 THEN Trimmed(Tail(b)) ELSE b

(* the shortest big-endian byte vector that stands for v *)
RECURSIVE MinimalBytes(_)
MinimalBytes(v) ==
  IF v < 256 THEN <<v>> ELSE Append(MinimalBytes(v \div 256), v % 256)

(* the base-12 digits of v, most significant first, "0" for zero *)
RECURSIVE Base12Digits(_)
Base12Digits(v) ==
  IF v < 12 THEN <<DG_DIGITS[v + 1]>>
  ELSE Append(Base12Digits(v \div 12), DG_DIGITS[(v % 12) + 1])

(* the digit chars of a text, in order: sign, radix point, '_' and ' ' left
   out *)
DigitsOf(s) == SelectSeq(s, LAMBDA c : digit_of(c) # -1)

(* the number the digits of a text form, read left to right:
   magnitude := magnitude * 12 + digit *)
RECURSIVE DigitsValue(_)
DigitsValue(ds) ==
  IF ds = <<>> THEN 0
  ELSE DigitsValue(SubSeq(ds, 1, Len(ds) - 1)) * 12 + digit_of(ds[Len(ds)])

(* the chars of a text after its first radix point, none without one *)
AfterPoint(s) ==
  IF strchr_dot(s) = 0 THEN <<>> ELSE SubSeq(s, strchr_dot(s) + 1, Len(s))

(* C27: base-12 fixed-point round trip.  For every non-empty byte vector b
   and scale s >= 0 whose encoding succeeded, decoding the text
   bytes_to_base12_scaled(b, s) produced succeeds and yields b without its
   leading zero bytes (one byte kept) and out_scale = s. *)
C27_RoundTrip ==
  (b12.at = "round_trip" /\ Len(b12.bytes) >= 1) =>
    /\ b12.drc = 0
    /\ b12.out_bytes = Trimmed(b12.bytes)
    /\ b12.out_scale = b12.scale

(* C28: the text of bytes_to_base12_scaled.  A negative scale is rejected;
   with scale 0 the text is the integer form, without a radix point; with
   scale s >= 1 the text has exactly one radix point and exactly s digits
   after it, and when the integer form has at most s digits the text is
   "0." and the integer form left-padded with zeros to s digits. *)
C28_ScaledText ==
  b12.at \in {"encoded", "round_trip"} =>
    LET ints == Base12Digits(BytesValue(b12.bytes))
        s == b12.scale
    IN /\ s < 0 => b12.rc # 0
       /\ (b12.rc = 0 /\ s = 0) => b12.text = ints
       /\ (b12.rc = 0 /\ s >= 1) =>
            /\ Len(SelectSeq(b12.text, LAMBDA c : c = ".")) = 1
            /\ Len(AfterPoint(b12.text)) = s
            /\ DigitsOf(AfterPoint(b12.text)) = AfterPoint(b12.text)
            /\ Len(ints) <= s =>
                 b12.text = <<"0", ".">> \o Zeros(s - Len(ints)) \o ints

(* C29: the decoded magnitude is exact.  Whenever
   base12_to_bytes_with_scale succeeds, the bytes it returns are the
   shortest big-endian byte vector whose value is the base-12 number formed
   by all digits of the text, before and after the radix point, growth of
   the working buffer included. *)
C29_DecodedMagnitude ==
  (b12.at \in {"decoded", "round_trip"} /\ b12.drc = 0) =>
    b12.out_bytes = MinimalBytes(DigitsValue(DigitsOf(b12.text)))

(* C30: the scale base12_to_bytes_with_scale reports is the number of
   base-12 digits after the first radix point, skipped '_' and ' ' not
   counted, and 0 for a text without a radix point. *)
C30_ReportedScale ==
  (b12.at \in {"decoded", "round_trip"} /\ b12.drc = 0) =>
    b12.out_scale = Len(DigitsOf(AfterPoint(b12.text)))

(* C31: bytes_to_base12 writes the canonical numeral.  A call whose buffer
   has room for the numeral and its NUL returns 0, and the text is then the
   base-12 numeral of the big-endian value of the bytes: digits 0-9,a,b,
   most significant first, no leading zero unless the value is zero, "0" for
   no bytes and for zero bytes only, the same text with or without leading
   zero bytes; FF FF FF FF gives "9ba461593". *)
C31_CanonicalNumeral ==
  b12.at = "encoded_int" =>
    /\ b12.outlen >= 3 * Len(b12.bytes) + 2 => b12.rc = 0
    /\ b12.rc = 0 =>
         /\ Len(b12.text) >= 1
         /\ \A i \in 1..Len(b12.text) :
              \E d \in 1..12 : b12.text[i] = DG_DIGITS[d]
         /\ b12.text[1] = "0" => b12.text = <<"0">>
         /\ bn_is_zero(b12.bytes) => b12.text = <<"0">>
         /\ b12.text = bytes_to_base12(Trimmed(b12.bytes), b12.outlen).out
         /\ Len(b12.bytes) <= 3 =>
              b12.text = Base12Digits(BytesValue(b12.bytes))
         /\ b12.bytes = <<255, 255, 255, 255>> =>
              b12.text = <<"9", "b", "a", "4", "6", "1", "5", "9", "3">>

(* FF FF FF FF was converted into a buffer with room for the nine digits *)
C31_Witness ==
  /\ b12.at = "encoded_int"
  /\ b12.rc = 0
  /\ b12.bytes = <<255, 255, 255, 255>>

(* a text with its letters in lower case and its '_' and ' ' taken out *)
Canon(s) ==
  LET kept == SelectSeq(s, LAMBDA c : c \notin {"_", " "})
  IN [i \in 1..Len(kept) |->
        IF kept[i] = "A" THEN "a" ELSE IF kept[i] = "B" THEN "b" ELSE kept[i]]

(* the text has a char that is no digit, no '_' or ' ', and not a sign in
   the first place; the first radix point is excused if dotOk *)
HasBadChar(s, dotOk) ==
  \E i \in 1..Len(s) :
    /\ digit_of(s[i]) = -1
    /\ s[i] \notin {"_", " "}
    /\ ~(i = 1 /\ s[1] \in {"+", "-"})
    /\ ~(dotOk /\ i = strchr_dot(s))

(* C32: decoding is insensitive to digit case and to separators.  For a
   text that does not begin with a separator, both decoders return the same
   code and the same magnitude as for the text with every '_' and ' '
   removed and A, B written a, b; a text with any other char that is no
   digit (apart from a sign in the first place, and for the byte decoder
   the first radix point) is rejected, and the byte decoder accepts every
   other text. *)
C32_CaseAndSeparators ==
  LET s == b12.text
      fresh == Len(s) = 0 \/ s[1] \notin {"_", " "}
  IN /\ b12.at = "decoded" =>
          /\ fresh =>
               /\ b12.drc = base12_to_bytes_with_scale(Canon(s)).rc
               /\ b12.drc = 0 =>
                    b12.out_bytes = base12_to_bytes_with_scale(Canon(s)).out_bytes
          /\ (b12.drc # 0) = HasBadChar(s, TRUE)
     /\ b12.at = "decoded_u64" =>
          /\ fresh =>
               /\ b12.drc = tr_from_base12_u64(Canon(s)).rc
               /\ b12.drc = 0 =>
                    b12.val = u64_stored(tr_from_base12_u64(Canon(s)).val,
                                         tr_from_base12_u64(Canon(s)).neg)
          /\ HasBadChar(s, FALSE) => b12.drc # 0

(* "1 B" was decoded to 23 by one of the decoders *)
C32_Witness ==
  /\ b12.text = <<"1", " ", "B">>
  /\ b12.drc = 0
  /\ \/ b12.at = "decoded" /\ b12.out_bytes = <<23>>
     \/ b12.at = "decoded_u64" /\ b12.val = 23

(* C33: the overflow test of tr_from_base12_u64 is exact.  For every string
   of digits, the call fails with the overflow message when the base-12
   value of the string exceeds UINT64_MAX, and otherwise returns 0 and
   stores exactly that value: the word never wraps before the test. *)
C33_OverflowExact ==
  b12.at = "decoded_u64" =>
    LET v == DigitsValue(b12.text)
    IN IF v > UINT64_MAX
       THEN /\ b12.drc = -1
            /\ lastError[b12.t] = "tr_from_base12_u64: overflow"
       ELSE /\ b12.drc = 0
            /\ b12.val = v
            /\ lastError[b12.t] = NoErr

(* the largest word was decoded, and a string one above it was refused *)
C33_Witness ==
  /\ b12.at = "decoded_u64"
  /\ DigitsValue(b12.text) = UINT64_MAX + 1
  /\ b12.drc = -1

(* ----------------- properties: Capsule with a looping entry ------------- *)

(* C34: destroy terminates.  When the entry procedure loops on a blocking
   recv of the inbox until it gets 0, a tr_capsule_destroy that found the
   capsule running and went into the join returns under fair scheduling,
   whatever is still queued in the inbox: the close wakes the recv, the
   entry takes what is left and returns, the worker exits and the join ends
   (unless the process has died on a failed allocation meanwhile). *)
C34_DestroyTerminates ==
  (\E t \in CapThreads : pc[t] = "destroy_wait") ~> (cap.freed \/ crashed)

(* a destroy that had to wait in the join has returned, and the entry had
   received a message *)
C34_Witness ==
  /\ ev.op = "capsule_destroy"
  /\ ev.out \in Workers
  /\ cap.freed
  /\ recvLog # <<>>

(* C35: the capsule's quarantine is sealed before its entry procedure runs.
   Whenever the user entry of a started capsule is executing, the sealed
   flag of the capsule's quarantine is set: quarantine_alloc on it would
   take its sealed branch. *)
C35_SealedBeforeEntry ==
  \A w \in Workers : wk[w].sub = "in_entry" => alloc_sees_sealed(q)

(* --------------------- properties: Channel structure ------------------ *)

(* the slots of the ring that hold an item: count slots from head on *)
Occupied == {(chan.head + n) % chan.capacity : n \in 0..(chan.count - 1)}

(* C36: the ring structure of the channel.  In every reachable state head
   and tail are below capacity and tail = (head + count) mod capacity; the
   count slots from head on, wrapping, hold the items sent and not yet
   received, in send order; every other slot is NULL. *)
C36_RingStructure ==
  /\ chan.head \in 0..(chan.capacity - 1)
  /\ chan.tail \in 0..(chan.capacity - 1)
  /\ chan.tail = (chan.head + chan.count) % chan.capacity
  /\ Cardinality(Occupied) = chan.count
  /\ \A n \in 1..chan.count :
       chan.buffer[(chan.head + n - 1) % chan.capacity] =
         sentLog[Len(recvLog) + n]
  /\ chan.count = Len(sentLog) - Len(recvLog)
  /\ \A i \in 0..(chan.capacity - 1) :
       i \notin Occupied => chan.buffer[i] = NULL

(* the ring is full and wraps: its oldest item is in the last slot, its
   newest in the first, after a slot was cleared and filled again *)
C36_Witness ==
  /\ chan.capacity = 2
  /\ chan.head = 1
  /\ chan.count = 2
  /\ Len(recvLog) = 1

(* C37: at most one worker per capsule.  At no time are two threads inside
   capsule_thread_start for the capsule: a tr_capsule_start called while a
   worker it created earlier has not exited creates no second one. *)
C37_OneWorker ==
  Cardinality({w \in Workers : wk[w].at \notin {Unborn, Exited}}) <= 1

(* the sends and the recvs that were called and have not returned *)
PendingSends == {t \in Threads : pc[t] \in {"send_wait", "send_woken"}}
PendingRecvs == {t \in Threads : pc[t] \in {"recv_wait", "recv_woken"}}

(* as many sends as recvs have been called *)
Balanced ==
  Len(sentLog) + Cardinality(PendingSends) =
    Len(recvLog) + Cardinality(PendingRecvs)

(* C38: no lost wake-up on an open channel.  With blocking senders and
   receivers (timeout 0) on a channel that is never closed, under fair
   scheduling: when as many sends as recvs have been called, every call
   returns (unless more calls are made), each send with 0 and each recv
   with 1; no receiver stays in the wait on not_empty for ever while
   count > 0, and no sender in the wait on not_full while
   count < capacity. *)
C38_NoLostWakeup ==
  /\ Balanced ~> ((\A t \in Threads : pc[t] = "idle") \/ ~Balanced)
  /\ [](ev.op = "send" => ev.ret = 0)
  /\ [](ev.op = "recv" => ev.ret = 1)
  /\ \A t \in Threads :
       /\ (pc[t] = "recv_wait" /\ chan.count > 0) ~>
            (pc[t] # "recv_wait" \/ chan.count = 0)
       /\ (pc[t] = "send_wait" /\ chan.count < chan.capacity) ~>
            (pc[t] # "send_wait" \/ chan.count = chan.capacity)

(* a receiver that was woken will find the channel empty: another recv has
   just taken the item it was woken for *)
C38_Witness ==
  /\ ev.op = "recv"
  /\ ev.ret = 1
  /\ chan.count = 0
  /\ \E t \in Threads : pc[t] = "recv_woken"

(* --------------- properties: syscall registry, concurrency ------------ *)

(* C39: no dispatch after unregister.  Once tr_unregister_syscall(name) has
   returned 0 and no entry with that name remains in the registry, no
   invocation of the name starts to execute a handler: whenever a handler
   is called for a name that was unregistered, an entry with that name is
   in the registry. *)
C39_NoDispatchAfterUnregister ==
  [][ev'.op = "handler" =>
       ~(/\ Logged("syscall_unregistered", ev'.in.name)
         /\ sys_find(sysRegs[g_syscall_registry], ev'.in.name) = 0)]_vars

(* ------------------- properties: the created capsule ----------------- *)

(* tr_thread_create has made no worker of the capsule yet *)
NoWorkerYet == \A w \in Workers : wk[w].at = Unborn

(* C40: the state tr_capsule_create leaves.  Until a start creates the
   worker no worker thread exists, no statement of the worker has run, no
   event has reached a callback and running is false; until destroy is
   called the inbox is open with capacity 32, and it is empty until the
   first message is sent; until destroy frees the capsule its quarantine is
   unsealed and tracks exactly one allocation, the copy of the name, whose
   storage is live; destroy releases it. *)
C40_CreatedState ==
  /\ NoWorkerYet =>
       /\ ~cap.running
       /\ hist.ups = 0
       /\ \A w \in Workers : hist.trace[w] = <<>> /\ hist.got[w] = <<>>
  /\ ~DestroyCalled =>
       /\ ~chan.closed
       /\ chan.capacity = InboxCapacity
       /\ sentLog = <<>> => chan.count = 0 /\ chan.head = 0 /\ chan.tail = 0
  /\ ~cap.freed =>
       /\ qAlive
       /\ ~alloc_sees_sealed(q)
       /\ q.count = 1
       /\ Tracked(q) = {NamePtr}
       /\ NamePtr \in heap
  /\ cap.freed => NamePtr \notin heap /\ owed = 0 /\ ~badFree

(* the capsule was started and sent a message, its worker is inside the
   entry procedure, and the name is still the one tracked allocation *)
C40_Witness ==
  /\ ~cap.freed
  /\ cap.running
  /\ sentLog # <<>>
  /\ \E w \in Workers : wk[w].sub = "in_entry"
  /\ Tracked(q) = {NamePtr}
  /\ NamePtr \in heap

====
